---- MODULE Spec2Model ----
(***************************************************************************)
(* A model of the svgg embedding/extraction codec (veridock/container):    *)
(*   svgg.core.file_handler.FileHandler      base64 encode/decode of files *)
(*   svgg.core.svg_generator.SVGGenerator    embed                         *)
(*   svgg.extractors.file_extractor.FileExtractor   extraction             *)
(*   svgg.core.metadata_manager.MetadataManager     add_file_metadata      *)
(*   svgg.importers.multi_importer.MultiImporter    get_file_info          *)
(*   svgg.importers.file_importer.SVGImporter       validate_svg           *)
(*   svgg.validators.svg_validator.SVGValidator     validate               *)
(*   svgg.listers.svg_lister.SVGLister              listing and reports    *)
(*   svgg.importers.file_importer.SVGImporter       load_svg               *)
(*   svgg.exporters.file_exporter.SVGExporter       export_svg             *)
(*   svgg.exporters.batch_exporter.BatchProcessor   process_files          *)
(*   svgg.extractors.file_extractor.FileExtractor   extract_to_directory   *)
(* Text is a sequence of one-character strings; a byte is a number in      *)
(* 0..255; a document is the sequence of markup tokens of its text.        *)
(***************************************************************************)
EXTENDS Integers, Sequences, FiniteSets, TLC

VARIABLES
    files,        \* binary files on disk: path -> [exists, data (bytes)]
    docs,         \* text files on disk:   path -> [exists, text (tokens)]
    encodeCall,   \* last FileHandler.encode_file_to_base64 call and its outcome
    decodeCall,   \* last FileHandler.decode_base64_to_file call and its outcome
    genMetadata,  \* SVGGenerator.metadata (self.metadata)
    embedCall,    \* last SVGGenerator.embed call and its returned dictionary
    embedCount,   \* number of embed calls made so far
    extractor,    \* FileExtractor: [made, status, root (parsed elements)]
    extractCall,  \* last FileExtractor.extract_embedded_files call and outcome
    manager,      \* MetadataManager: [made, metadata, calls (add_file_metadata)]
    fileInfoCall, \* last MultiImporter.get_file_info call and its outcome
    svgCheck,     \* SVGImporter.validate_svg: the root tag given, the result
    validator,    \* SVGValidator: [made, status, root, errors, warnings]
    validateCall, \* last SVGValidator.validate call and its returned dictionary
    lister,       \* SVGLister: [made, status, root (parsed elements)]
    listCall,     \* the SVGLister methods called so far, each with its last result
    loadCall,     \* last SVGImporter.load_svg call and its outcome
    exportCall,   \* last SVGExporter.export_svg call and its outcome
    batchCall,    \* last BatchProcessor.process_files call and its outcome
    outDir,       \* the files under and beside the directory files are extracted to
    dirCall,      \* last FileExtractor.extract_to_directory call and its outcome
    tasks,        \* concurrent embed invocations: position, arguments, locals
    selfMetadata, \* SVGGenerator instance -> the dictionary self.metadata refers to
    heap          \* dictionary objects: identity -> [made, value]

vars == <<files, docs, encodeCall, decodeCall, genMetadata, embedCall,
          embedCount, extractor, extractCall, manager, fileInfoCall, svgCheck,
          validator, validateCall, lister, listCall, loadCall, exportCall,
          batchCall, outDir, dirCall, tasks, selfMetadata, heap>>

-----------------------------------------------------------------------------
(* Bounds of the model *)

\* longest byte content of a binary file
MaxBytes == 3
\* longest hand-written base64 text passed to decode_base64_to_file
MaxTextLen == 3

-----------------------------------------------------------------------------
(* Generic helpers on sequences *)

RECURSIVE SeqsUpTo(_, _)
SeqsUpTo(S, n) ==
    IF n = 0 THEN {<<>>}
    ELSE LET shorter == SeqsUpTo(S, n - 1)
         IN  shorter \cup {Append(s, x) : s \in {t \in shorter : Len(t) = n - 1}, x \in S}

Take(s, n) == SubSeq(s, 1, IF n < Len(s) THEN n ELSE Len(s))

Drop(s, n) == SubSeq(s, n + 1, Len(s))

-----------------------------------------------------------------------------
(* base64 (Python's base64.b64encode / base64.b64decode, as the code calls  *)
(* them: standard alphabet, validate=False)                                 *)

B64Alphabet ==
    << "A","B","C","D","E","F","G","H","I","J","K","L","M","N","O","P",
       "Q","R","S","T","U","V","W","X","Y","Z","a","b","c","d","e","f",
       "g","h","i","j","k","l","m","n","o","p","q","r","s","t","u","v",
       "w","x","y","z","0","1","2","3","4","5","6","7","8","9","+","/" >>

B64Char(i) == B64Alphabet[i + 1]

IsB64Char(c) == \E i \in 1..64 : B64Alphabet[i] = c

B64Index(c) == (CHOOSE i \in 1..64 : B64Alphabet[i] = c) - 1

\* a character that is not ASCII: str input holding one makes b64decode raise
\* ValueError before any decoding
NonAscii == "U+00E9"

\* base64.b64encode(data).decode('utf-8') with the padding left out (a mutant)
RECURSIVE B64EncodeNoPad(_)
B64EncodeNoPad(b) ==
    IF Len(b) = 0 THEN <<>>
    ELSE IF Len(b) = 1 THEN
        << B64Char(b[1] \div 4), B64Char((b[1] % 4) * 16) >>
    ELSE IF Len(b) = 2 THEN
        << B64Char(b[1] \div 4), B64Char((b[1] % 4) * 16 + b[2] \div 16),
           B64Char((b[2] % 16) * 4) >>
    ELSE
        << B64Char(b[1] \div 4), B64Char((b[1] % 4) * 16 + b[2] \div 16),
           B64Char((b[2] % 16) * 4 + b[3] \div 64), B64Char(b[3] % 64) >>
        \o B64EncodeNoPad(Drop(b, 3))

\* base64.b64encode(data).decode('utf-8')
RECURSIVE B64Encode(_)
B64Encode(b) ==
    IF Len(b) = 0 THEN <<>>
    ELSE IF Len(b) = 1 THEN
        << B64Char(b[1] \div 4), B64Char((b[1] % 4) * 16), "=", "=" >>
    ELSE IF Len(b) = 2 THEN
        << B64Char(b[1] \div 4), B64Char((b[1] % 4) * 16 + b[2] \div 16),
           B64Char((b[2] % 16) * 4), "=" >>
    ELSE
        << B64Char(b[1] \div 4), B64Char((b[1] % 4) * 16 + b[2] \div 16),
           B64Char((b[2] % 16) * 4 + b[3] \div 64), B64Char(b[3] % 64) >>
        \o B64Encode(Drop(b, 3))

\* binascii.a2b_base64 in its default, non-strict mode: characters outside the
\* alphabet are discarded, a complete pad sequence ends the input, and data
\* characters left over in an unfinished quad are an error.
RECURSIVE A2BBase64(_, _, _, _, _, _)
A2BBase64(s, i, quad, left, pads, out) ==
    IF i > Len(s) THEN
        IF quad # 0 THEN [status |-> "binascii.Error", data |-> <<>>]
        ELSE [status |-> "ok", data |-> out]
    ELSE IF s[i] = "=" THEN
        IF quad >= 2 /\ quad + pads + 1 >= 4 THEN [status |-> "ok", data |-> out]
        ELSE A2BBase64(s, i + 1, quad, left, IF quad >= 2 THEN pads + 1 ELSE pads, out)
    ELSE IF ~IsB64Char(s[i]) THEN
        A2BBase64(s, i + 1, quad, left, pads, out)
    ELSE
        LET v == B64Index(s[i]) IN
        IF quad = 0 THEN A2BBase64(s, i + 1, 1, v, 0, out)
        ELSE IF quad = 1 THEN
            A2BBase64(s, i + 1, 2, v % 16, 0, Append(out, left * 4 + v \div 16))
        ELSE IF quad = 2 THEN
            A2BBase64(s, i + 1, 3, v % 4, 0, Append(out, left * 16 + v \div 4))
        ELSE
            A2BBase64(s, i + 1, 0, 0, 0, Append(out, left * 64 + v))

\* base64.b64decode(s) for a str argument
B64Decode(s) ==
    IF \E i \in 1..Len(s) : s[i] = NonAscii
    THEN [status |-> "ValueError", data |-> <<>>]
    ELSE A2BBase64(s, 1, 0, 0, 0, <<>>)

-----------------------------------------------------------------------------
(* The file system *)

NoFile == [exists |-> FALSE, data |-> <<>>]

FileOf(b) == [exists |-> TRUE, data |-> b]

\* the document files of the model
DocIn == "in.svg"

DocOut == "out.svg"

DocPaths == {DocIn, DocOut}

NoDoc == [exists |-> FALSE, text |-> <<>>]

DocOf(ts) == [exists |-> TRUE, text |-> ts]

\* only the working directory exists: a path with a directory part names a
\* file in a directory that is not there, so open(path, 'wb') fails
DirExists(path) == \A i \in 1..Len(path) : path[i] # "/"

\* the byte values file contents are drawn from: NUL, ASCII, and two bytes
\* that are not valid UTF-8 on their own
ByteValues == {0, 65, 255}

ByteSeqs == SeqsUpTo(ByteValues, MaxBytes)

-----------------------------------------------------------------------------
(* FileHandler: encode_file_to_base64, decode_base64_to_file *)

CodecIn == <<"i", "n">>

CodecOut == <<"o", "u", "t">>

CodecNoDir == <<"d", "/", "o">>

CodecPaths == {CodecIn, CodecOut, CodecNoDir}

\* hand-written texts given to decode_base64_to_file
TextChars == {"Q", "=", "@"}

HandTexts == SeqsUpTo(TextChars, MaxTextLen) \cup {<<"Q", "U", "J", "D", "@", "@", "@">>, <<NonAscii>>}

NoEncodeCall == [called |-> FALSE, path |-> <<>>, status |-> "none", bytes |-> <<>>, text |-> <<>>]

NoDecodeCall == [called |-> FALSE, encoded_data |-> <<>>, path |-> <<>>, status |-> "none", before |-> NoFile]

\* FileHandler.encode_file_to_base64(file_path): the returned text, or IOError
EncodeFileToBase64(file_path) ==
    /\ encodeCall' =
         IF files[file_path].exists
         THEN [called |-> TRUE, path |-> file_path, status |-> "ok",
               bytes |-> files[file_path].data,
               text |-> B64Encode(files[file_path].data)]
         ELSE [called |-> TRUE, path |-> file_path, status |-> "IOError",
               bytes |-> <<>>, text |-> <<>>]
    /\ UNCHANGED <<files, docs, decodeCall, genMetadata, embedCall, embedCount,
                   extractor, extractCall,
                   manager, fileInfoCall, svgCheck, validator, validateCall,
                   lister, listCall, loadCall, exportCall, batchCall, outDir,
                   dirCall, tasks, selfMetadata, heap>>

\* the outcome of decode_base64_to_file: b64decode runs before the file is opened
DecodeStatus(encoded_data, output_path) ==
    LET d == B64Decode(encoded_data) IN
    IF d.status = "binascii.Error" THEN "ValueError"
    ELSE IF d.status = "ValueError" THEN "IOError"
    ELSE IF ~DirExists(output_path) THEN "IOError"
    ELSE "ok"

\* FileHandler.decode_base64_to_file(encoded_data, output_path)
DecodeBase64ToFile(encoded_data, output_path) ==
    LET st == DecodeStatus(encoded_data, output_path) IN
    /\ decodeCall' = [called |-> TRUE, encoded_data |-> encoded_data,
                      path |-> output_path, status |-> st,
                      before |-> files[output_path]]
    /\ files' = IF st = "ok"
                THEN [files EXCEPT ![output_path] = FileOf(B64Decode(encoded_data).data)]
                ELSE files
    /\ UNCHANGED <<docs, encodeCall, genMetadata, embedCall, embedCount,
                   extractor, extractCall,
                   manager, fileInfoCall, svgCheck, validator, validateCall,
                   lister, listCall, loadCall, exportCall, batchCall, outDir,
                   dirCall, tasks, selfMetadata, heap>>

\* the texts a caller has at hand: hand-written ones and the last encode result
DecodeInputs ==
    HandTexts \cup (IF encodeCall.status = "ok" THEN {encodeCall.text} ELSE {})

-----------------------------------------------------------------------------
(* Python values and their JSON text (json.dumps(obj, indent=2), json.loads) *)
(* A value is [t, v]: a str (characters), an int, a list (sequence of       *)
(* values), a dict (sequence of [key, val], in insertion order) or an       *)
(* object json cannot serialize.                                            *)

PyStr(s) == [t |-> "str", v |-> s]

PyInt(n) == [t |-> "int", v |-> n]

PyList(items) == [t |-> "list", v |-> items]

PyDict(items) == [t |-> "dict", v |-> items]

PyObject == [t |-> "object", v |-> <<>>]

Item(key, val) == [key |-> key, val |-> val]

HasKey(d, key) == \E i \in 1..Len(d.v) : d.v[i].key = key

\* d[key]
DictGet(d, key) == d.v[CHOOSE i \in 1..Len(d.v) : d.v[i].key = key].val

\* d[key] = val: a present key keeps its position, a new key goes last
DictSet(d, key, val) ==
    IF HasKey(d, key)
    THEN PyDict([i \in 1..Len(d.v) |->
                   IF d.v[i].key = key THEN Item(key, val) ELSE d.v[i]])
    ELSE PyDict(Append(d.v, Item(key, val)))

Digits == <<"0", "1", "2", "3", "4", "5", "6", "7", "8", "9">>

IsDigit(c) == \E i \in 1..10 : Digits[i] = c

DigitValue(c) == (CHOOSE i \in 1..10 : Digits[i] = c) - 1

\* str(n) for n >= 0
RECURSIVE IntText(_)
IntText(n) == IF n < 10 THEN <<Digits[n + 1]>>
              ELSE Append(IntText(n \div 10), Digits[(n % 10) + 1])

IsJsonSpecial(c) == c \in {"\"", "\\"}

\* json's escaping of a str (the model's strings hold printable ASCII only):
\* a backslash goes before every quote and every backslash
JsonEscape(s) ==
    IF \A i \in 1..Len(s) : ~IsJsonSpecial(s[i]) THEN s
    ELSE LET start(i) == i + Cardinality({j \in 1..(i - 1) : IsJsonSpecial(s[j])})
             n == Len(s) + Cardinality({j \in 1..Len(s) : IsJsonSpecial(s[j])})
         IN  [k \in 1..n |->
                LET i == CHOOSE i \in 1..Len(s) :
                            start(i) <= k /\ k <= start(i) + (IF IsJsonSpecial(s[i]) THEN 1 ELSE 0)
                IN  IF IsJsonSpecial(s[i]) /\ k = start(i) THEN "\\" ELSE s[i]]

Indent(level) == [i \in 1..(2 * level) |-> " "]

RECURSIVE JsonSerializable(_)
JsonSerializable(x) ==
    IF x.t = "object" THEN FALSE
    ELSE IF x.t = "list" THEN \A i \in 1..Len(x.v) : JsonSerializable(x.v[i])
    ELSE IF x.t = "dict" THEN \A i \in 1..Len(x.v) : JsonSerializable(x.v[i].val)
    ELSE TRUE

RECURSIVE JsonText(_, _), JsonJoin(_, _, _)
\* the text of a serializable value at a nesting level
JsonText(x, level) ==
    IF x.t = "str" THEN <<"\"">> \o JsonEscape(x.v) \o <<"\"">>
    ELSE IF x.t = "int" THEN IntText(x.v)
    ELSE IF x.t = "list" THEN
        IF Len(x.v) = 0 THEN <<"[", "]">>
        ELSE <<"[", "\n">> \o JsonJoin(x, 1, level + 1)
             \o <<"\n">> \o Indent(level) \o <<"]">>
    ELSE
        IF Len(x.v) = 0 THEN <<"{", "}">>
        ELSE <<"{", "\n">> \o JsonJoin(x, 1, level + 1)
             \o <<"\n">> \o Indent(level) \o <<"}">>
\* items i.. of a list or dict, one per line, separated by ",\n"
JsonJoin(x, i, level) ==
    LET one == IF x.t = "list" THEN JsonText(x.v[i], level)
               ELSE <<"\"">> \o JsonEscape(x.v[i].key) \o <<"\"", ":", " ">>
                    \o JsonText(x.v[i].val, level)
    IN  Indent(level) \o one \o
        (IF i = Len(x.v) THEN <<>> ELSE <<",", "\n">> \o JsonJoin(x, i + 1, level))

\* json.dumps(obj, indent=2): the text, or TypeError
JsonDumps(obj) ==
    IF JsonSerializable(obj) THEN [status |-> "ok", text |-> JsonText(obj, 0)]
    ELSE [status |-> "TypeError", text |-> <<>>]

IsJsonSpace(c) == c \in {" ", "\n", "\t", "\r"}

\* the first position at or after i that holds no whitespace
JsonSkip(s, i) ==
    CHOOSE j \in i..(Len(s) + 1) :
        /\ j = Len(s) + 1 \/ ~IsJsonSpace(s[j])
        /\ \A m \in i..(j - 1) : IsJsonSpace(s[m])

JsonFail == [ok |-> FALSE, val |-> PyInt(0), next |-> 0]

\* the number of backslashes that end at position k
BackslashRun(s, k) ==
    CHOOSE n \in 0..k :
        /\ \A m \in 1..n : s[k - m + 1] = "\\"
        /\ n = k \/ s[k - n] # "\\"

\* the characters of a string whose opening quote is at i - 1: up to the first
\* quote that no backslash escapes, each escape pair giving its second character
JsonString(s, i) ==
    LET closes(j) == s[j] = "\"" /\ BackslashRun(SubSeq(s, i, j - 1), j - i) % 2 = 0 IN
    IF \E j \in i..Len(s) : closes(j)
    THEN LET end == CHOOSE j \in i..Len(s) : closes(j) /\ \A m \in i..(j - 1) : ~closes(m)
             raw == SubSeq(s, i, end - 1)
             escapes(k) == raw[k] = "\\" /\ BackslashRun(raw, k - 1) % 2 = 0
         IN  [ok |-> TRUE, next |-> end + 1,
              val |-> PyStr(IF \A k \in 1..Len(raw) : raw[k] # "\\" THEN raw
                            ELSE LET kept == SelectSeq([k \in 1..Len(raw) |-> <<raw[k], escapes(k)>>],
                                                       LAMBDA x : ~x[2])
                                 IN  [k \in 1..Len(kept) |-> kept[k][1]])]
    ELSE JsonFail

RECURSIVE JsonNumber(_, _, _)
JsonNumber(s, i, acc) ==
    IF i <= Len(s) /\ IsDigit(s[i])
    THEN JsonNumber(s, i + 1, acc * 10 + DigitValue(s[i]))
    ELSE [ok |-> TRUE, val |-> PyInt(acc), next |-> i]

RECURSIVE JsonValue(_, _), JsonListItems(_, _, _), JsonDictItems(_, _, _)
\* the value that starts at position i (after whitespace)
JsonValue(s, i0) ==
    LET i == JsonSkip(s, i0) IN
    IF i > Len(s) THEN JsonFail
    ELSE IF s[i] = "\"" THEN JsonString(s, i + 1)
    ELSE IF IsDigit(s[i]) THEN JsonNumber(s, i, 0)
    ELSE IF s[i] = "[" THEN
        LET j == JsonSkip(s, i + 1) IN
        IF j <= Len(s) /\ s[j] = "]"
        THEN [ok |-> TRUE, val |-> PyList(<<>>), next |-> j + 1]
        ELSE JsonListItems(s, j, <<>>)
    ELSE IF s[i] = "{" THEN
        LET j == JsonSkip(s, i + 1) IN
        IF j <= Len(s) /\ s[j] = "}"
        THEN [ok |-> TRUE, val |-> PyDict(<<>>), next |-> j + 1]
        ELSE JsonDictItems(s, j, PyDict(<<>>))
    ELSE JsonFail
JsonListItems(s, i, acc) ==
    LET r == JsonValue(s, i) IN
    IF ~r.ok THEN JsonFail
    ELSE LET j == JsonSkip(s, r.next) IN
         IF j > Len(s) THEN JsonFail
         ELSE IF s[j] = "]"
              THEN [ok |-> TRUE, val |-> PyList(Append(acc, r.val)), next |-> j + 1]
         ELSE IF s[j] = "," THEN JsonListItems(s, j + 1, Append(acc, r.val))
         ELSE JsonFail
JsonDictItems(s, i0, acc) ==
    LET i == JsonSkip(s, i0) IN
    IF i > Len(s) \/ s[i] # "\"" THEN JsonFail
    ELSE LET k == JsonString(s, i + 1) IN
         IF ~k.ok THEN JsonFail
         ELSE LET c == JsonSkip(s, k.next) IN
              IF c > Len(s) \/ s[c] # ":" THEN JsonFail
              ELSE LET r == JsonValue(s, c + 1) IN
                   IF ~r.ok THEN JsonFail
                   ELSE LET j == JsonSkip(s, r.next)
                            d == DictSet(acc, k.val.v, r.val)
                        IN  IF j > Len(s) THEN JsonFail
                            ELSE IF s[j] = "}"
                                 THEN [ok |-> TRUE, val |-> d, next |-> j + 1]
                            ELSE IF s[j] = "," THEN JsonDictItems(s, j + 1, d)
                            ELSE JsonFail

\* json.loads(text): the value, or a JSONDecodeError
JsonLoads(text) ==
    LET r == JsonValue(text, 1) IN
    IF r.ok /\ JsonSkip(text, r.next) > Len(text)
    THEN [status |-> "ok", val |-> r.val]
    ELSE [status |-> "JSONDecodeError", val |-> PyInt(0)]

-----------------------------------------------------------------------------
(* Documents.  The text of a document is a sequence of markup tokens; a     *)
(* token is a start tag, an end tag, an empty-element tag, a comment or a   *)
(* run of character data.  lit tells whether an end tag is written exactly  *)
(* "</tag>" (it may also be written with white space before ">").           *)

NoAttrs == <<>>

OpenTag(tag, attrs) == [k |-> "open", tag |-> tag, attrs |-> attrs, lit |-> TRUE, text |-> <<>>]

EmptyTag(tag, attrs) == [k |-> "empty", tag |-> tag, attrs |-> attrs, lit |-> TRUE, text |-> <<>>]

CloseTag(tag) == [k |-> "close", tag |-> tag, attrs |-> NoAttrs, lit |-> TRUE, text |-> <<>>]

CloseTagSpaced(tag) == [k |-> "close", tag |-> tag, attrs |-> NoAttrs, lit |-> FALSE, text |-> <<>>]

Comment(text) == [k |-> "comment", tag |-> "", attrs |-> NoAttrs, lit |-> TRUE, text |-> text]

CharData(text) == [k |-> "text", tag |-> "", attrs |-> NoAttrs, lit |-> TRUE, text |-> text]

\* character data whose markup characters are written as references (&lt;)
EscapedData(text) == [k |-> "text", tag |-> "", attrs |-> NoAttrs, lit |-> FALSE, text |-> text]

HasAttr(e, name) == name \in DOMAIN e.attrs

IsSpaceText(s) == \A i \in 1..Len(s) : s[i] \in {" ", "\n", "\t", "\r"}

\* character data as expat accepts it where the writer did not escape it: a
\* "<" or a "&" in it is markup, and in the texts of this model ill-formed;
\* data written with references stands for the characters referred to
MarkupFree(s) == \A i \in 1..Len(s) : s[i] \notin {"<", "&"}

NoTree == [status |-> "ParseError", elems |-> <<>>]

(* Namespaces.  A name is written "local" or "prefix:local"; the parser gives *)
(* an element or attribute in a namespace the name "{uri}local".  Names and   *)
(* namespace URIs are strings; the prefixed names the documents of this model *)
(* use are listed with their two parts.                                       *)
\* the names a serializer writes with prefixes it makes up (ns0, ns1)
GeneratedNames ==
    ({"ns0", "ns1"} \X {"svg", "g", "rect", "text"}) \cup ({"xmlns"} \X {"ns0", "ns1"})

QNameParts ==
    ("xlink:href" :> <<"xlink", "href">>) @@ ("xmlns:xlink" :> <<"xmlns", "xlink">>)
    @@ ("xmlns:s" :> <<"xmlns", "s">>) @@ ("s:svg" :> <<"s", "svg">>)
    @@ [n \in {pl[1] \o ":" \o pl[2] : pl \in GeneratedNames} |->
           CHOOSE pl \in GeneratedNames : pl[1] \o ":" \o pl[2] = n]

NamePrefix(name) == IF name \in DOMAIN QNameParts THEN QNameParts[name][1] ELSE ""

NameLocal(name) == IF name \in DOMAIN QNameParts THEN QNameParts[name][2] ELSE name

IsNsDecl(name) == name = "xmlns" \/ NamePrefix(name) = "xmlns"

\* the prefix -> URI bindings in scope in an element: those of its start tag
\* over those of its parent; "" is the default namespace
NsMap(tok, inherited) ==
    LET decls == {a \in DOMAIN tok.attrs : IsNsDecl(a)}
        own == [p \in {IF a = "xmlns" THEN "" ELSE NameLocal(a) : a \in decls} |->
                   tok.attrs[CHOOSE a \in decls :
                                 (IF a = "xmlns" THEN "" ELSE NameLocal(a)) = p]]
    IN  [p \in DOMAIN own \cup DOMAIN inherited |->
            IF p \in DOMAIN own THEN own[p] ELSE inherited[p]]

Clark(uri, local) == IF uri = "" THEN local ELSE "{" \o uri \o "}" \o local

\* the name of an element: the default namespace applies to it
ElementName(name, nsmap) ==
    LET p == NamePrefix(name) IN
    Clark(IF p \in DOMAIN nsmap THEN nsmap[p] ELSE "", NameLocal(name))

\* the name of an attribute: only a prefix puts it in a namespace
AttrName(name, nsmap) ==
    IF NamePrefix(name) = "" THEN name
    ELSE Clark(nsmap[NamePrefix(name)], NameLocal(name))

\* every prefix used in a start tag is bound ("unbound prefix" otherwise)
PrefixesBound(tok, nsmap) ==
    /\ NamePrefix(tok.tag) # "" => NamePrefix(tok.tag) \in DOMAIN nsmap
    /\ \A a \in DOMAIN tok.attrs :
          (~IsNsDecl(a) /\ NamePrefix(a) # "") => NamePrefix(a) \in DOMAIN nsmap

\* an element: tag and attrib as the parser gives them; qname, local and
\* nsmap keep the name as written, its local part and the bindings in scope
Element(tok, parent, nsmap) ==
    LET plain == {a \in DOMAIN tok.attrs : ~IsNsDecl(a)} IN
    [tag |-> ElementName(tok.tag, nsmap),
     qname |-> tok.tag,
     local |-> NameLocal(tok.tag),
     attrs |-> [k \in {AttrName(a, nsmap) : a \in plain} |->
                   tok.attrs[CHOOSE a \in plain : AttrName(a, nsmap) = k]],
     nsmap |-> nsmap,
     parent |-> parent,
     text |-> <<>>]

HasChild(elems, p) == \E i \in 1..Len(elems) : elems[i].parent = p

RECURSIVE XMLBuild(_, _, _, _)
\* ET.fromstring: the elements in document order, each with its tag, its
\* attributes, its parent's position (0 for the root) and its text; comments
\* are discarded by the default TreeBuilder
XMLBuild(ts, i, elems, stack) ==
    IF i > Len(ts) THEN
        IF stack # <<>> \/ elems = <<>> THEN NoTree
        ELSE [status |-> "ok", elems |-> elems]
    ELSE
        LET tok == ts[i]
            top == IF stack = <<>> THEN 0 ELSE stack[Len(stack)]
            afterRoot == stack = <<>> /\ elems # <<>>
            nsmap == NsMap(tok, IF top = 0 THEN <<>> ELSE elems[top].nsmap)
        IN
        IF tok.k = "open" THEN
            IF afterRoot \/ ~PrefixesBound(tok, nsmap) THEN NoTree
            ELSE XMLBuild(ts, i + 1, Append(elems, Element(tok, top, nsmap)),
                          Append(stack, Len(elems) + 1))
        ELSE IF tok.k = "empty" THEN
            IF afterRoot \/ ~PrefixesBound(tok, nsmap) THEN NoTree
            ELSE XMLBuild(ts, i + 1, Append(elems, Element(tok, top, nsmap)), stack)
        ELSE IF tok.k = "close" THEN
            IF stack = <<>> \/ elems[top].qname # tok.tag THEN NoTree
            ELSE XMLBuild(ts, i + 1, elems, SubSeq(stack, 1, Len(stack) - 1))
        ELSE IF tok.k = "comment" THEN
            XMLBuild(ts, i + 1, elems, stack)
        ELSE
            IF tok.lit /\ ~MarkupFree(tok.text) THEN NoTree
            ELSE IF stack = <<>> THEN
                IF IsSpaceText(tok.text) THEN XMLBuild(ts, i + 1, elems, stack)
                ELSE NoTree
            ELSE IF HasChild(elems, top) THEN XMLBuild(ts, i + 1, elems, stack)
            ELSE XMLBuild(ts, i + 1,
                          [elems EXCEPT ![top].text = @ \o tok.text], stack)

\* xml.etree.ElementTree.fromstring(text)
XMLFromString(ts) == XMLBuild(ts, 1, <<>>, <<>>)

-----------------------------------------------------------------------------
(* FileExtractor *)

AttrFilename == "data-filename"

AttrContent == "data-content"

\* str.strip()
RECURSIVE LStrip(_)
LStrip(s) == IF Len(s) > 0 /\ s[1] \in {" ", "\n", "\t", "\r"} THEN LStrip(Tail(s)) ELSE s

RECURSIVE RStrip(_)
RStrip(s) == IF Len(s) > 0 /\ s[Len(s)] \in {" ", "\n", "\t", "\r"}
             THEN RStrip(SubSeq(s, 1, Len(s) - 1)) ELSE s

Strip(s) == RStrip(LStrip(s))

FileMarker == <<"F", "I", "L", "E", ":">>

StartsWith(s, prefix) == Len(s) >= Len(prefix) /\ SubSeq(s, 1, Len(prefix)) = prefix

\* text.split('\n', 1)
SplitFirstLine(s) ==
    IF \E i \in 1..Len(s) : s[i] = "\n"
    THEN LET n == CHOOSE i \in 1..Len(s) : s[i] = "\n" /\ \A j \in 1..(i - 1) : s[j] # "\n"
         IN  <<SubSeq(s, 1, n - 1), Drop(s, n)>>
    ELSE <<s>>

\* the elements ET.fromstring builds have no xpath method (lxml's elements
\* have one, and _parse_svg accepts none of those): calling it raises
\* AttributeError
ElementHasXPath == FALSE

\* FileExtractor.__init__ with _parse_svg, for str content: self.svg_content
\* and self.root, or SVGGError
ParseSvg(svg_content) ==
    LET r == XMLFromString(svg_content) IN
    IF r.status = "ok"
    THEN [made |-> TRUE, svg_content |-> svg_content, status |-> "ok", root |-> r.elems,
          xpath |-> ElementHasXPath]
    ELSE [made |-> TRUE, svg_content |-> svg_content, status |-> "SVGGError", root |-> <<>>,
          xpath |-> ElementHasXPath]

\* self.root.findall(".//*[@data-filename]"): the descendants of the root (the
\* root itself is not among them) that carry data-filename, in document order
FindAllWithFilename(root) ==
    SelectSeq([i \in 1..Len(root) |-> [pos |-> i, elem |-> root[i]]],
              LAMBDA x : x.pos > 1 /\ HasAttr(x.elem, AttrFilename))

\* the body of the first loop: embedded_files[filename] = content, unless the
\* element has no data-content or b64decode raises (a warning is printed)
AttrItem(embedded_files, elem) ==
    IF HasAttr(elem, AttrContent) THEN
        LET d == B64Decode(elem.attrs[AttrContent]) IN
        IF d.status = "ok"
        THEN DictSet(embedded_files, elem.attrs[AttrFilename], d.data)
        ELSE embedded_files
    ELSE embedded_files

RECURSIVE AttrLoop(_, _, _)
AttrLoop(found, i, embedded_files) ==
    IF i > Len(found) THEN embedded_files
    ELSE AttrLoop(found, i + 1, AttrItem(embedded_files, found[i].elem))


\* the body of the second loop, for one comment
CommentItem(embedded_files, comment) ==
    LET text == Strip(comment.text) IN
    IF StartsWith(text, FileMarker) THEN
        LET parts == SplitFirstLine(text) IN
        IF Len(parts) = 2 THEN
            LET filename == Strip(Drop(parts[1], 5))
                d == B64Decode(Strip(parts[2]))
            IN  IF d.status = "ok" THEN DictSet(embedded_files, filename, d.data)
                ELSE embedded_files
        ELSE embedded_files
    ELSE embedded_files

RECURSIVE CommentLoop(_, _, _)
CommentLoop(comments, i, embedded_files) ==
    IF i > Len(comments) THEN embedded_files
    ELSE CommentLoop(comments, i + 1, CommentItem(embedded_files, comments[i]))

\* FileExtractor.extract_embedded_files(): the returned mapping, or SVGGError;
\* embedded_files is the local mapping as it is when the method ends;
\* has_xpath tells whether self.root has an xpath method
ExtractEmbeddedFilesResult(root, comments, has_xpath) ==
    LET afterAttrs == AttrLoop(FindAllWithFilename(root), 1, PyDict(<<>>)) IN
    IF ~has_xpath
    THEN [called |-> TRUE, status |-> "SVGGError", files |-> PyDict(<<>>),
          embedded_files |-> afterAttrs]
    ELSE LET all == CommentLoop(comments, 1, afterAttrs) IN
         [called |-> TRUE, status |-> "ok", files |-> all, embedded_files |-> all]

NoExtractor == [made |-> FALSE, svg_content |-> <<>>, status |-> "none", root |-> <<>>,
                xpath |-> FALSE]

NoExtractCall == [called |-> FALSE, status |-> "none", files |-> PyDict(<<>>),
                  embedded_files |-> PyDict(<<>>)]

\* the comments of a document text, in document order
CommentsOf(ts) == SelectSeq(ts, LAMBDA tok : tok.k = "comment")

\* FileExtractor(svg_content) with the text of a document file
NewFileExtractor(path) ==
    /\ docs[path].exists
    /\ extractor' = ParseSvg(docs[path].text)
    /\ extractCall' = NoExtractCall
    /\ UNCHANGED <<files, docs, encodeCall, decodeCall, genMetadata, embedCall,
                   embedCount,
                   manager, fileInfoCall, svgCheck, validator, validateCall,
                   lister, listCall, loadCall, exportCall, batchCall, outDir,
                   dirCall, tasks, selfMetadata, heap>>

\* extractor.extract_embedded_files()
ExtractEmbeddedFiles ==
    /\ extractor.made /\ extractor.status = "ok"
    /\ ~extractCall.called
    /\ extractCall' = ExtractEmbeddedFilesResult(extractor.root,
                                                 CommentsOf(extractor.svg_content),
                                                 extractor.xpath)
    /\ UNCHANGED <<files, docs, encodeCall, decodeCall, genMetadata, embedCall,
                   embedCount, extractor,
                   manager, fileInfoCall, svgCheck, validator, validateCall,
                   lister, listCall, loadCall, exportCall, batchCall, outDir,
                   dirCall, tasks, selfMetadata, heap>>

-----------------------------------------------------------------------------
(* SVGGenerator.embed *)

KeyEmbeddedFiles == <<"e", "m", "b", "e", "d", "d", "e", "d", "_", "f", "i", "l", "e", "s">>

KeyPath == <<"p", "a", "t", "h">>

KeyMimeType == <<"m", "i", "m", "e", "_", "t", "y", "p", "e">>

KeySize == <<"s", "i", "z", "e">>

KeyDataUri == <<"d", "a", "t", "a", "_", "u", "r", "i">>

MimeTextPlain == <<"t", "e", "x", "t", "/", "p", "l", "a", "i", "n">>

MimeOctetStream == <<"a", "p", "p", "l", "i", "c", "a", "t", "i", "o", "n", "/", "o", "c", "t", "e", "t", "-", "s", "t", "r", "e", "a", "m">>

MimeJson == <<"a", "p", "p", "l", "i", "c", "a", "t", "i", "o", "n", "/", "j", "s", "o", "n">>

MetadataId == <<"s", "v", "g", "g", "-", "m", "e", "t", "a", "d", "a", "t", "a">>

UpperCase == <<"A", "B", "C", "D", "E", "F", "G", "H", "I", "J", "K", "L", "M",
               "N", "O", "P", "Q", "R", "S", "T", "U", "V", "W", "X", "Y", "Z">>

LowerCase == <<"a", "b", "c", "d", "e", "f", "g", "h", "i", "j", "k", "l", "m",
               "n", "o", "p", "q", "r", "s", "t", "u", "v", "w", "x", "y", "z">>

\* str.lower()
Lower(s) ==
    [i \in 1..Len(s) |->
        IF \E k \in 1..26 : UpperCase[k] = s[i]
        THEN LowerCase[CHOOSE k \in 1..26 : UpperCase[k] = s[i]]
        ELSE s[i]]

\* the position of the last dot of a name, 0 when it has none
LastDot(name) ==
    IF \E i \in 1..Len(name) : name[i] = "."
    THEN CHOOSE i \in 1..Len(name) :
            name[i] = "." /\ \A j \in (i + 1)..Len(name) : name[j] # "."
    ELSE 0

\* posixpath.splitext(path)[1] for a path without a directory: from the last
\* dot on, empty when there is no dot or only dots come before it
PathExt(path) ==
    LET n == LastDot(path) IN
    IF n > 0 /\ \E j \in 1..(n - 1) : path[j] # "."
    THEN SubSeq(path, n, Len(path))
    ELSE <<>>

\* mimetypes' encodings_map, of which the names of this model use ".gz"
EncodingsMap == {<<".", "g", "z">>}

\* mimetypes' types_map on the extensions the names of this model use
TypesMap ==
    (<<".", "t", "x", "t">> :> MimeTextPlain)
    @@ (<<".", "j", "s", "o", "n">> :> MimeJson)
    @@ (<<".", "b", "i", "n">> :> MimeOctetStream)
    @@ (<<".", "t", "a", "r">> :> <<"a", "p", "p", "l", "i", "c", "a", "t", "i", "o", "n", "/", "x", "-", "t", "a", "r">>)
    @@ (<<".", "g", "z">> :> <<"a", "p", "p", "l", "i", "c", "a", "t", "i", "o", "n", "/", "g", "z", "i", "p">>)
    @@ (<<".", "m", "d">> :> <<"t", "e", "x", "t", "/", "m", "a", "r", "k", "d", "o", "w", "n">>)

\* mimetypes.guess_type(path)[0]; the empty text stands for None.  An
\* extension that names an encoding is taken off first (it is matched with
\* its case), the extension then left is looked up in lower case.
GuessType(path) ==
    LET ext0 == PathExt(path)
        encoded == ext0 \in EncodingsMap
        base == IF encoded THEN SubSeq(path, 1, Len(path) - Len(ext0)) ELSE path
        ext == Lower(IF encoded THEN PathExt(base) ELSE ext0)
    IN  IF ext \in DOMAIN TypesMap THEN TypesMap[ext] ELSE <<>>

\* the length of the data URI preview kept in the metadata
PreviewLen == 100

DataUri(mime_type, encoded_data) ==
    <<"d", "a", "t", "a", ":">> \o mime_type \o <<";", "b", "a", "s", "e", "6", "4", ",">> \o encoded_data

PyNone == [t |-> "none", v |-> <<>>]

\* metadata or {}
OrEmptyDict(metadata) ==
    IF metadata.t = "none" \/ (metadata.t = "dict" /\ Len(metadata.v) = 0)
    THEN PyDict(<<>>) ELSE metadata

\* file_info with the size taken from the encoded text (a mutant)
FileInfoEncodedSize(file_path, file_data) ==
    LET guessed == GuessType(file_path)
        mime_type == IF guessed = <<>> THEN MimeOctetStream ELSE guessed
        encoded_data == B64Encode(file_data)
    IN  PyDict(<< Item(KeyPath, PyStr(file_path)),
                  Item(KeyMimeType, PyStr(mime_type)),
                  Item(KeySize, PyInt(Len(encoded_data))),
                  Item(KeyDataUri, PyStr(Take(DataUri(mime_type, encoded_data), PreviewLen)
                                         \o <<".", ".", ".">>)) >>)

\* the file_info dictionary of one file that was read
FileInfo(file_path, file_data) ==
    LET guessed == GuessType(file_path)
        mime_type == IF guessed = <<>> THEN MimeOctetStream ELSE guessed
        encoded_data == B64Encode(file_data)
    IN  PyDict(<< Item(KeyPath, PyStr(file_path)),
                  Item(KeyMimeType, PyStr(mime_type)),
                  Item(KeySize, PyInt(Len(file_data))),
                  Item(KeyDataUri, PyStr(Take(DataUri(mime_type, encoded_data), PreviewLen)
                                         \o <<".", ".", ".">>)) >>)

\* os.path.exists answering yes for every path (a mutant)
PathExistsAlways(file_path) == TRUE

\* os.path.exists(file_path)
PathExists(file_path) == files[file_path].exists

RECURSIVE EmbedLoop(_, _, _)
\* the loop over files: the file_info of each, until one does not exist
EmbedLoop(file_list, i, infos) ==
    IF i > Len(file_list) THEN [status |-> "ok", infos |-> infos]
    ELSE IF ~PathExists(file_list[i])
         THEN [status |-> "FileNotFoundError", infos |-> infos]
    ELSE EmbedLoop(file_list, i + 1,
                   Append(infos, FileInfo(file_list[i], files[file_list[i]].data)))

\* embedded_content: path, mime_type and size of each file_info
EmbeddedContent(infos) ==
    [i \in 1..Len(infos) |->
        PyDict(<< Item(KeyPath, DictGet(infos[i], KeyPath)),
                  Item(KeyMimeType, DictGet(infos[i], KeyMimeType)),
                  Item(KeySize, DictGet(infos[i], KeySize)) >>)]

\* <script type="application/json" id="svgg-metadata">\n{metadata_str}\n</script>
ScriptContent(metadata_str) ==
    << OpenTag("script", ("type" :> MimeJson) @@ ("id" :> MetadataId)),
       CharData(<<"\n">> \o metadata_str \o <<"\n">>),
       CloseTag("script") >>

SvgClose == CloseTag("svg")

RECURSIVE ReplaceSvgClose(_, _)
\* svg_content.replace('</svg>', f"\n{script_content}\n</svg>"): every
\* occurrence of the literal end tag is replaced
ReplaceSvgClose(svg_content, script_content) ==
    IF Len(svg_content) = 0 THEN <<>>
    ELSE (IF Head(svg_content) = SvgClose
          THEN <<CharData(<<"\n">>)>> \o script_content \o <<CharData(<<"\n">>), SvgClose>>
          ELSE <<Head(svg_content)>>)
         \o ReplaceSvgClose(Tail(svg_content), script_content)

\* the insertion step (lines 94-98)
InsertScript(svg_content, script_content) ==
    IF \E i \in 1..Len(svg_content) : svg_content[i] = SvgClose
    THEN ReplaceSvgClose(svg_content, script_content)
    ELSE svg_content \o <<CharData(<<"\n">>)>> \o script_content

NoEmbedCall ==
    [called |-> FALSE, svg_file |-> "", files |-> <<>>, output |-> "",
     metadata |-> PyNone, success |-> FALSE, error |-> "", embedded_files |-> <<>>,
     chained |-> FALSE]

\* SVGGenerator.embed(svg_file, files, output, metadata)
Embed(svg_file, file_list, output, metadata) ==
    LET initial == DictSet(OrEmptyDict(metadata), KeyEmbeddedFiles, PyList(<<>>))
        loop == IF docs[svg_file].exists THEN EmbedLoop(file_list, 1, <<>>)
                ELSE [status |-> "FileNotFoundError", infos |-> <<>>]
        final == DictSet(initial, KeyEmbeddedFiles, PyList(loop.infos))
        dumped == JsonDumps(final)
        error == IF loop.status # "ok" THEN loop.status
                 ELSE IF dumped.status # "ok" THEN dumped.status ELSE ""
        call == [called |-> TRUE, svg_file |-> svg_file, files |-> file_list,
                 output |-> output, metadata |-> metadata,
                 chained |-> embedCall.called /\ embedCall.success
                             /\ (embedCount = 1 \/ embedCall.chained)
                             /\ svg_file = embedCall.output]
    IN
    /\ genMetadata' = final
    /\ embedCount' = embedCount + 1
    /\ IF error = ""
       THEN /\ docs' = [docs EXCEPT ![output] =
                          DocOf(InsertScript(docs[svg_file].text, ScriptContent(dumped.text)))]
            /\ embedCall' = call @@ [success |-> TRUE, error |-> "",
                                     embedded_files |-> EmbeddedContent(loop.infos)]
       ELSE /\ docs' = docs
            /\ embedCall' = call @@ [success |-> FALSE, error |-> error,
                                     embedded_files |-> <<>>]
    /\ UNCHANGED <<files, encodeCall, decodeCall, extractor, extractCall,
                   manager, fileInfoCall, svgCheck, validator, validateCall,
                   lister, listCall, loadCall, exportCall, batchCall, outDir,
                   dirCall, tasks, selfMetadata, heap>>

-----------------------------------------------------------------------------
(* MetadataManager *)

NoManager == [made |-> FALSE, metadata |-> PyDict(<<>>), added |-> <<>>]

\* MetadataManager(metadata): self.metadata = metadata or {}, then
\* setdefault('embedded_files', [])
NewMetadataManager(metadata) ==
    /\ ~manager.made
    /\ manager' = [made |-> TRUE,
                   metadata |-> IF HasKey(OrEmptyDict(metadata), KeyEmbeddedFiles)
                                THEN OrEmptyDict(metadata)
                                ELSE DictSet(OrEmptyDict(metadata), KeyEmbeddedFiles, PyList(<<>>)),
                   added |-> <<>>]
    /\ UNCHANGED <<files, docs, encodeCall, decodeCall, genMetadata, embedCall,
                   embedCount, extractor, extractCall, fileInfoCall, svgCheck,
                   validator, validateCall,
                   lister, listCall, loadCall, exportCall, batchCall, outDir,
                   dirCall, tasks, selfMetadata, heap>>

\* the file_metadata dictionary of add_file_metadata; an empty data_uri (or
\* None) is falsy and leaves the key out
FileMetadata(file_path, mime_type, size, data_uri) ==
    PyDict(<< Item(KeyPath, PyStr(file_path)),
              Item(KeyMimeType, PyStr(mime_type)),
              Item(KeySize, PyInt(size)) >>
           \o IF Len(data_uri) > 0
              THEN << Item(KeyDataUri, PyStr(Take(data_uri, PreviewLen) \o <<".", ".", ".">>)) >>
              ELSE <<>>)

\* manager.add_file_metadata(file_path, mime_type, size, data_uri); added
\* keeps the arguments of the calls made
AddFileMetadata(file_path, mime_type, size, data_uri) ==
    /\ manager.made
    /\ DictGet(manager.metadata, KeyEmbeddedFiles).t = "list"
    /\ manager' = [manager EXCEPT
          !.metadata = DictSet(@, KeyEmbeddedFiles,
                               PyList(Append(DictGet(@, KeyEmbeddedFiles).v,
                                             FileMetadata(file_path, mime_type, size, data_uri)))),
          !.added = Append(@, [file_path |-> file_path, mime_type |-> mime_type,
                               size |-> size, data_uri |-> data_uri])]
    /\ UNCHANGED <<files, docs, encodeCall, decodeCall, genMetadata, embedCall,
                   embedCount, extractor, extractCall, fileInfoCall, svgCheck,
                   validator, validateCall,
                   lister, listCall, loadCall, exportCall, batchCall, outDir,
                   dirCall, tasks, selfMetadata, heap>>

-----------------------------------------------------------------------------
(* MultiImporter *)

\* MultiImporter.SUPPORTED_FORMATS
SUPPORTED_FORMATS ==
    (<<".", "p", "d", "f">> :> <<"a", "p", "p", "l", "i", "c", "a", "t", "i", "o", "n", "/", "p", "d", "f">>)
    @@ (<<".", "d", "o", "c">> :> <<"a", "p", "p", "l", "i", "c", "a", "t", "i", "o", "n", "/", "m", "s", "w", "o", "r", "d">>)
    @@ (<<".", "d", "o", "c", "x">> :> <<"a", "p", "p", "l", "i", "c", "a", "t", "i", "o", "n", "/", "v", "n", "d", ".", "o", "p", "e", "n", "x", "m", "l", "f", "o", "r", "m", "a", "t", "s", "-", "o", "f", "f", "i", "c", "e", "d", "o", "c", "u", "m", "e", "n", "t", ".", "w", "o", "r", "d", "p", "r", "o", "c", "e", "s", "s", "i", "n", "g", "m", "l", ".", "d", "o", "c", "u", "m", "e", "n", "t">>)
    @@ (<<".", "o", "d", "t">> :> <<"a", "p", "p", "l", "i", "c", "a", "t", "i", "o", "n", "/", "v", "n", "d", ".", "o", "a", "s", "i", "s", ".", "o", "p", "e", "n", "d", "o", "c", "u", "m", "e", "n", "t", ".", "t", "e", "x", "t">>)
    @@ (<<".", "p", "n", "g">> :> <<"i", "m", "a", "g", "e", "/", "p", "n", "g">>)
    @@ (<<".", "j", "p", "g">> :> <<"i", "m", "a", "g", "e", "/", "j", "p", "e", "g">>)
    @@ (<<".", "j", "p", "e", "g">> :> <<"i", "m", "a", "g", "e", "/", "j", "p", "e", "g">>)
    @@ (<<".", "g", "i", "f">> :> <<"i", "m", "a", "g", "e", "/", "g", "i", "f">>)
    @@ (<<".", "s", "v", "g">> :> <<"i", "m", "a", "g", "e", "/", "s", "v", "g", "+", "x", "m", "l">>)
    @@ (<<".", "w", "e", "b", "p">> :> <<"i", "m", "a", "g", "e", "/", "w", "e", "b", "p">>)
    @@ (<<".", "j", "s", "o", "n">> :> <<"a", "p", "p", "l", "i", "c", "a", "t", "i", "o", "n", "/", "j", "s", "o", "n">>)
    @@ (<<".", "c", "s", "v">> :> <<"t", "e", "x", "t", "/", "c", "s", "v">>)
    @@ (<<".", "t", "x", "t">> :> <<"t", "e", "x", "t", "/", "p", "l", "a", "i", "n">>)
    @@ (<<".", "z", "i", "p">> :> <<"a", "p", "p", "l", "i", "c", "a", "t", "i", "o", "n", "/", "z", "i", "p">>)
    @@ (<<".", "t", "a", "r">> :> <<"a", "p", "p", "l", "i", "c", "a", "t", "i", "o", "n", "/", "x", "-", "t", "a", "r">>)
    @@ (<<".", "g", "z">> :> <<"a", "p", "p", "l", "i", "c", "a", "t", "i", "o", "n", "/", "g", "z", "i", "p">>)
    @@ (<<".", "7", "z">> :> <<"a", "p", "p", "l", "i", "c", "a", "t", "i", "o", "n", "/", "x", "-", "7", "z", "-", "c", "o", "m", "p", "r", "e", "s", "s", "e", "d">>)

\* pathlib's PurePath.suffix of a name: from the last dot on, empty when the
\* dot is the first or the last character of the name or there is none
Suffix(name) ==
    LET n == LastDot(name) IN
    IF 1 < n /\ n < Len(name) THEN SubSeq(name, n, Len(name)) ELSE <<>>

\* the directory the process runs in
Cwd == <<"/", "w">>

\* the guesser asked before the table (a mutant)
TableGetGuesserFirst(ext, file_path) ==
    IF GuessType(file_path) # <<>> THEN GuessType(file_path)
    ELSE IF ext \in DOMAIN SUPPORTED_FORMATS THEN SUPPORTED_FORMATS[ext] ELSE <<>>

\* self.SUPPORTED_FORMATS.get(ext, mimetypes.guess_type(file_path)[0])
TableGet(ext, file_path) ==
    IF ext \in DOMAIN SUPPORTED_FORMATS THEN SUPPORTED_FORMATS[ext] ELSE GuessType(file_path)

\* the dictionary get_file_info returns for an existing file
FileInfoOf(file_path) ==
    LET ext == Lower(Suffix(file_path))
        mime_type == TableGet(ext, file_path)
    IN  [path |-> Cwd \o <<"/">> \o file_path,
         name |-> file_path,
         extension |-> ext,
         mime_type |-> IF mime_type = <<>> THEN MimeOctetStream ELSE mime_type,
         size |-> Len(files[file_path].data),
         supported |-> ext \in DOMAIN SUPPORTED_FORMATS]

NoFileInfo ==
    [path |-> <<>>, name |-> <<>>, extension |-> <<>>, mime_type |-> <<>>,
     size |-> 0, supported |-> FALSE]

NoFileInfoCall == [called |-> FALSE, file_path |-> <<>>, status |-> "none", info |-> NoFileInfo]

\* MultiImporter().get_file_info(file_path)
GetFileInfo(file_path) ==
    /\ fileInfoCall' =
          IF files[file_path].exists
          THEN [called |-> TRUE, file_path |-> file_path, status |-> "ok",
                info |-> FileInfoOf(file_path)]
          ELSE [called |-> TRUE, file_path |-> file_path,
                status |-> "FileNotFoundError", info |-> NoFileInfo]
    /\ UNCHANGED <<files, docs, encodeCall, decodeCall, genMetadata, embedCall,
                   embedCount, extractor, extractCall, manager, svgCheck,
                   validator, validateCall,
                   lister, listCall, loadCall, exportCall, batchCall, outDir,
                   dirCall, tasks, selfMetadata, heap>>

-----------------------------------------------------------------------------
(* SVGImporter.validate_svg *)

SvgNamespace == <<"h", "t", "t", "p", ":", "/", "/", "w", "w", "w", ".", "w", "3", ".", "o", "r", "g", "/", "2", "0", "0", "0", "/", "s", "v", "g">>

EndsWith(s, suffix) ==
    Len(s) >= Len(suffix) /\ SubSeq(s, Len(s) - Len(suffix) + 1, Len(s)) = suffix

\* the tag of an element as the parser gives it: "{uri}local", or "local"
\* for a name in no namespace
ClarkTag(uri, local) ==
    IF uri = <<>> THEN local ELSE <<"{">> \o uri \o <<"}">> \o local

NoSvgCheck == [called |-> FALSE, tag |-> <<>>, result |-> FALSE]

\* SVGImporter().validate_svg(svg_tree), svg_tree a parsed document whose
\* root has the given tag
ValidateSvg(tag) ==
    /\ svgCheck' = [called |-> TRUE, tag |-> tag,
                    result |-> \/ EndsWith(tag, <<"s", "v", "g">>)
                               \/ tag = ClarkTag(SvgNamespace, <<"s", "v", "g">>)]
    /\ UNCHANGED <<files, docs, encodeCall, decodeCall, genMetadata, embedCall,
                   embedCount, extractor, extractCall, manager, fileInfoCall,
                   validator, validateCall,
                   lister, listCall, loadCall, exportCall, batchCall, outDir,
                   dirCall, tasks, selfMetadata, heap>>

-----------------------------------------------------------------------------
(* SVGValidator *)

SvgNsUri == "http://www.w3.org/2000/svg"

XlinkNsUri == "http://www.w3.org/1999/xlink"

NoValidator == [made |-> FALSE, status |-> "none", root |-> <<>>,
                errors |-> <<>>, warnings |-> <<>>]

NoValidateCall == [called |-> FALSE, runs |-> 0, is_valid |-> FALSE,
                   errors |-> <<>>, warnings |-> <<>>]

\* an entry of the errors or warnings list: its code, and its element and
\* attribute keys ("" for a key the entry does not have)
Finding(code, element, attribute) ==
    [code |-> code, element |-> element, attribute |-> attribute]

\* SVGValidator(svg_content) with the text of a document file: _parse_svg
\* gives self.root, or SVGGError
NewSVGValidator(path) ==
    /\ docs[path].exists
    /\ ~validator.made
    /\ validator' =
          LET r == XMLFromString(docs[path].text) IN
          IF r.status = "ok"
          THEN [made |-> TRUE, status |-> "ok", root |-> r.elems,
                errors |-> <<>>, warnings |-> <<>>]
          ELSE [made |-> TRUE, status |-> "SVGGError", root |-> <<>>,
                errors |-> <<>>, warnings |-> <<>>]
    /\ validateCall' = NoValidateCall
    /\ UNCHANGED <<files, docs, encodeCall, decodeCall, genMetadata, embedCall,
                   embedCount, extractor, extractCall, manager, fileInfoCall,
                   svgCheck,
                   lister, listCall, loadCall, exportCall, batchCall, outDir,
                   dirCall, tasks, selfMetadata, heap>>

\* the recommended attributes of the root, each with f'MISSING_{attr.upper()}'
RootAttrs == <<"width", "height", "viewBox">>

RootAttrCode == ("width" :> "MISSING_WIDTH") @@ ("height" :> "MISSING_HEIGHT")
                @@ ("viewBox" :> "MISSING_VIEWBOX")

\* validate_structure: the error for a root that is not the SVG element
StructureErrors(root) ==
    IF root[1].tag # Clark(SvgNsUri, "svg")
    THEN <<Finding("INVALID_ROOT", root[1].tag, "")>>
    ELSE <<>>

\* the warnings of validate_structure with the one for viewBox left out (a mutant)
StructureWarningsNoViewBox(root) ==
    LET lacking == SelectSeq(SubSeq(RootAttrs, 1, 2), LAMBDA attr : attr \notin DOMAIN root[1].attrs)
    IN  [i \in 1..Len(lacking) |-> Finding(RootAttrCode[lacking[i]], "svg", "")]

\* validate_structure: a warning for each recommended attribute the root lacks
StructureWarnings(root) ==
    LET lacking == SelectSeq(RootAttrs, LAMBDA attr : attr \notin DOMAIN root[1].attrs)
    IN  [i \in 1..Len(lacking) |-> Finding(RootAttrCode[lacking[i]], "svg", "")]

\* valid_elements of validate_elements
ValidElements ==
    {"svg", "g", "path", "rect", "circle", "ellipse", "line", "polyline",
     "polygon", "text", "tspan", "image", "use", "defs", "clipPath",
     "linearGradient", "radialGradient", "stop", "style", "script"}

\* required_attrs of _validate_attributes
RequiredAttrs ==
    ("image" :> <<"xlink:href", "x", "y", "width", "height">>)
    @@ ("use" :> <<"xlink:href", "x", "y">>)
    @@ ("linearGradient" :> <<"id", "x1", "y1", "x2", "y2">>)
    @@ ("radialGradient" :> <<"id", "cx", "cy", "r", "fx", "fy">>)
    @@ ("stop" :> <<"offset", "stop-color">>)

IsLetter(c) == \E k \in 1..26 : c = UpperCase[k] \/ c = LowerCase[k]

\* _is_valid_id on the characters the ids of this model use
IsValidId(id_str) ==
    /\ Len(id_str) > 0
    /\ IsLetter(id_str[1]) \/ id_str[1] = "_"
    /\ \A i \in 2..Len(id_str) :
          IsLetter(id_str[i]) \/ IsDigit(id_str[i]) \/ id_str[i] \in {"_", "-", ".", ":"}

\* _validate_attributes(elem, tag): the errors it appends
AttributeErrors(elem, tag) ==
    LET required == IF tag \in DOMAIN RequiredAttrs THEN RequiredAttrs[tag] ELSE <<>>
        missing == SelectSeq(required, LAMBDA attr : attr \notin DOMAIN elem.attrs)
    IN  [i \in 1..Len(missing) |-> Finding("MISSING_ATTR", tag, missing[i])]
        \o IF "id" \in DOMAIN elem.attrs /\ ~IsValidId(elem.attrs["id"])
           THEN <<Finding("INVALID_ID", "", "")>>
           ELSE <<>>

CommentOpen == <<"<", "!", "-", "-">>

CommentClose == <<"-", "-", ">">>

Contains(s, part) ==
    \E i \in 1..(Len(s) - Len(part) + 1) : SubSeq(s, i, i + Len(part) - 1) = part

\* the text of an element reads as a comment (lines 107-111)
TextIsComment(text) ==
    /\ Contains(text, CommentOpen)
    /\ StartsWith(Strip(text), CommentOpen)
    /\ EndsWith(Strip(text), CommentClose)

\* ET.Element('comment') with the text between the comment marks
CommentElement(text, parent) ==
    [tag |-> "comment", qname |-> "comment", local |-> "comment", attrs |-> <<>>,
     nsmap |-> <<>>, parent |-> parent,
     text |-> Strip(SubSeq(Strip(text), 5, Len(Strip(text)) - 3))]

\* the position of the last element of the subtree of element i
SubtreeEnd(elems, i) ==
    CHOOSE j \in i..Len(elems) :
        /\ \A k \in (i + 1)..j : elems[k].parent >= i
        /\ j = Len(elems) \/ elems[j + 1].parent < i

\* element.append(child): the child comes after the subtree of element i
AppendChild(elems, i, child) ==
    LET j == SubtreeEnd(elems, i) IN
    SubSeq(elems, 1, j) \o <<child>>
    \o [k \in 1..(Len(elems) - j) |->
           IF elems[j + k].parent > j
           THEN [elems[j + k] EXCEPT !.parent = @ + 1]
           ELSE elems[j + k]]

RECURSIVE ValidateElements(_, _, _, _)
\* validate_elements: the loop over root.iter() from element i on; an element
\* appended while the loop runs is visited in its turn
ValidateElements(elems, i, errors, warnings) ==
    IF i > Len(elems) THEN [root |-> elems, errors |-> errors, warnings |-> warnings]
    ELSE
        LET element == elems[i]
            tag == element.local
            grown == IF TextIsComment(element.text)
                     THEN AppendChild(elems, i, CommentElement(element.text, i))
                     ELSE elems
        IN  ValidateElements(grown, i + 1,
                             errors \o AttributeErrors(element, tag),
                             IF tag \notin ValidElements
                             THEN Append(warnings, Finding("UNKNOWN_ELEMENT", tag, ""))
                             ELSE warnings)

\* is_valid computed from both lists (a mutant)
IsValidNoFindings(errors, warnings) == Len(errors) = 0 /\ Len(warnings) = 0

\* 'is_valid': len(self.errors) == 0
IsValid(errors, warnings) == Len(errors) = 0

\* validator.validate(): both lists are emptied, validate_structure and
\* validate_elements run, and the dictionary is returned
Validate ==
    /\ validator.made /\ validator.status = "ok"
    /\ LET checked == ValidateElements(validator.root, 1,
                                       StructureErrors(validator.root),
                                       StructureWarnings(validator.root))
       IN  /\ validator' = [validator EXCEPT !.root = checked.root,
                                             !.errors = checked.errors,
                                             !.warnings = checked.warnings]
           /\ validateCall' = [called |-> TRUE,
                               runs |-> validateCall.runs + 1,
                               is_valid |-> IsValid(checked.errors, checked.warnings),
                               errors |-> checked.errors,
                               warnings |-> checked.warnings]
    /\ UNCHANGED <<files, docs, encodeCall, decodeCall, genMetadata, embedCall,
                   embedCount, extractor, extractCall, manager, fileInfoCall,
                   svgCheck,
                   lister, listCall, loadCall, exportCall, batchCall, outDir,
                   dirCall, tasks, selfMetadata, heap>>

-----------------------------------------------------------------------------
(* SVGLister *)

NoLister == [made |-> FALSE, status |-> "none", root |-> <<>>]

\* the methods of a lister that take no argument, and list_elements with its
\* element_type ("" stands for None)
ListerCalls ==
    { [op |-> "list_embedded_files", arg |-> ""], [op |-> "get_metadata", arg |-> ""],
      [op |-> "generate_report", arg |-> ""], [op |-> "list_elements", arg |-> ""],
      [op |-> "list_elements", arg |-> "rect"] }

NoListCall == [c \in ListerCalls |-> [runs |-> 0, result |-> <<>>]]

\* SVGLister(svg_content) with the text of a document file: _parse_svg gives
\* self.root, or SVGGError with the message of the ParseError
NewSVGLister(path) ==
    /\ docs[path].exists
    /\ ~lister.made
    /\ lister' =
          LET r == XMLFromString(docs[path].text) IN
          IF r.status = "ok"
          THEN [made |-> TRUE, status |-> "ok", root |-> r.elems]
          ELSE [made |-> TRUE, status |-> "SVGGError", root |-> <<>>]
    /\ listCall' = NoListCall
    /\ UNCHANGED <<files, docs, encodeCall, decodeCall, genMetadata, embedCall,
                   embedCount, extractor, extractCall, manager, fileInfoCall, svgCheck,
                   validator, validateCall, loadCall, exportCall, batchCall, outDir,
                   dirCall, tasks, selfMetadata, heap>>

AttrType == "data-type"

\* len(text) * 3 // 4
ApproximateSize(text) == (Len(text) * 3) \div 4

\* the dictionary list_embedded_files appends for an element (lines 61-72)
ListedElement(elem) ==
    [filename |-> elem.attrs[AttrFilename],
     type |-> IF HasAttr(elem, AttrType) THEN elem.attrs[AttrType] ELSE MimeOctetStream,
     size_bytes |-> ApproximateSize(elem.attrs[AttrContent]),
     location |-> "metadata",
     element |-> elem.tag]

\* _find_comments: for each element, in document order, whose text reads as
\* a comment, an ET.Element('comment') with the text between the marks; the
\* new element goes to the returned list only
FindComments(root) ==
    LET found == SelectSeq(root, LAMBDA e : TextIsComment(e.text)) IN
    [i \in 1..Len(found) |-> CommentElement(found[i].text, 0)]

\* the tree after _find_comments ran, had it attached each element it
\* creates to the element whose text it read (a mutant)
RECURSIVE AttachComments(_, _)
AttachComments(root, i) ==
    IF i > Len(root) THEN root
    ELSE IF TextIsComment(root[i].text)
         THEN AttachComments(AppendChild(root, i, CommentElement(root[i].text, i)), i + 1)
         ELSE AttachComments(root, i + 1)

\* the second loop of list_embedded_files, for the i-th comment (from 0)
ListedComment(i, comment) ==
    LET text == Strip(comment.text)
        parts == SplitFirstLine(text)
    IN  IF StartsWith(text, FileMarker) /\ Len(parts) = 2
        THEN <<[filename |-> Strip(Drop(parts[1], 5)),
                type |-> MimeOctetStream,
                size_bytes |-> ApproximateSize(Strip(parts[2])),
                location |-> "comment_" \o ToString(i),
                element |-> "comment"]>>
        ELSE <<>>

RECURSIVE ListedComments(_, _)
ListedComments(comments, i) ==
    IF i > Len(comments) THEN <<>>
    ELSE ListedComment(i - 1, comments[i]) \o ListedComments(comments, i + 1)

\* the list list_embedded_files returns
EmbeddedFilesListed(root) ==
    LET found == FindAllWithFilename(root)
        both == SelectSeq(found, LAMBDA x : HasAttr(x.elem, AttrContent))
    IN  [i \in 1..Len(both) |-> ListedElement(both[i].elem)]
        \o ListedComments(FindComments(root), 1)

\* list_embedded_files with a _find_comments that attaches what it creates (a mutant)
ListEmbeddedFilesAttaching(root) ==
    [root |-> AttachComments(root, 1), result |-> EmbeddedFilesListed(root)]

\* list_embedded_files(): the tree as the call leaves it, and the returned list
ListEmbeddedFiles(root) == [root |-> root, result |-> EmbeddedFilesListed(root)]

HundredPercent == <<"1", "0", "0", "%">>

AttrOr(elem, name, default) == IF HasAttr(elem, name) THEN elem.attrs[name] ELSE default

RECURSIVE MetadataChildren(_, _, _, _)
\* the loop over the children of the metadata element at position m
MetadataChildren(root, m, i, metadata) ==
    IF i > Len(root) THEN metadata
    ELSE IF root[i].parent = m /\ Strip(root[i].text) # <<>>
         THEN MetadataChildren(root, m, i + 1,
                               DictSet(metadata, root[i].local, Strip(root[i].text)))
         ELSE MetadataChildren(root, m, i + 1, metadata)

\* get_metadata(): the returned dictionary
GetMetadata(root) ==
    LET basic == PyDict(<<Item("width", AttrOr(root[1], "width", HundredPercent)),
                          Item("height", AttrOr(root[1], "height", HundredPercent)),
                          Item("viewBox", AttrOr(root[1], "viewBox", <<>>))>>)
        isMeta(i) == root[i].parent = 1 /\ root[i].tag = Clark(SvgNsUri, "metadata")
    IN  [root |-> root,
         result |-> IF \E i \in 1..Len(root) : isMeta(i)
                    THEN MetadataChildren(root,
                             CHOOSE i \in 1..Len(root) :
                                 isMeta(i) /\ \A j \in 1..(i - 1) : ~isMeta(j),
                             1, basic)
                    ELSE basic]

\* the dictionary list_elements appends for an element
ElementInfo(elem) ==
    [tag |-> elem.local, id |-> AttrOr(elem, "id", <<>>), class |-> AttrOr(elem, "class", <<>>)]

\* list_elements(element_type): root.iter() for None, else the descendants of
\* the root with that local name in any namespace or none
ListElements(root, element_type) ==
    LET picked == SelectSeq([i \in 1..Len(root) |-> [pos |-> i, elem |-> root[i]]],
                            LAMBDA x : element_type = "" \/
                                       (x.pos > 1 /\ x.elem.local = element_type))
    IN  [root |-> root, result |-> [i \in 1..Len(picked) |-> ElementInfo(picked[i].elem)]]

\* f"{size_kb:.2f}" for size_bytes / 1024.0: whole part and hundredths
SizeKB(size_bytes) ==
    LET h == (size_bytes * 200 + 1024) \div 2048 IN [whole |-> h \div 100, hundredths |-> h % 100]

\* generate_report(): the lines of the report; the lines of the elements are
\* sorted by tag, one for each tag with its count
GenerateReport(root) ==
    LET metadata == GetMetadata(root).result
        embedded_files == EmbeddedFilesListed(root)
        elements == ListElements(root, "").result
        tags == {elements[i].tag : i \in 1..Len(elements)}
    IN  [root |-> root,
         result |->
            [dimensions |-> <<DictGet(metadata, "width"), DictGet(metadata, "height")>>,
             viewBox |-> DictGet(metadata, "viewBox"),
             files |-> [i \in 1..Len(embedded_files) |->
                           [number |-> i,
                            filename |-> embedded_files[i].filename,
                            size_kb |-> SizeKB(embedded_files[i].size_bytes),
                            type |-> embedded_files[i].type,
                            location |-> embedded_files[i].location]],
             counts |-> {[tag |-> t,
                          count |-> Cardinality({i \in 1..Len(elements) : elements[i].tag = t})]
                         : t \in tags}]]

\* what a method of the lister does to the tree and returns
ListerCallOutcome(c, root) ==
    IF c.op = "list_embedded_files" THEN ListEmbeddedFiles(root)
    ELSE IF c.op = "get_metadata" THEN GetMetadata(root)
    ELSE IF c.op = "generate_report" THEN GenerateReport(root)
    ELSE ListElements(root, c.arg)

\* one call of a method of the lister
ListerCall(c) ==
    /\ lister.made /\ lister.status = "ok"
    /\ LET out == ListerCallOutcome(c, lister.root) IN
       /\ lister' = [lister EXCEPT !.root = out.root]
       /\ listCall' = [listCall EXCEPT ![c] = [runs |-> @.runs + 1, result |-> out.result]]
    /\ UNCHANGED <<files, docs, encodeCall, decodeCall, genMetadata, embedCall,
                   embedCount, extractor, extractCall, manager, fileInfoCall, svgCheck,
                   validator, validateCall, loadCall, exportCall, batchCall, outDir,
                   dirCall, tasks, selfMetadata, heap>>

-----------------------------------------------------------------------------
(* SVGImporter.load_svg *)

NoLoadCall == [called |-> FALSE, file_path |-> "", status |-> "none", root |-> <<>>]

RECURSIVE XMLRecover(_, _, _, _)
\* etree.parse(file_path, parser) of lxml with XMLParser(remove_blank_text=
\* True, recover=True): the parser goes on after an error it can recover
\* from and gives the tree it could build.  Elements left open at the end of
\* the input are closed; an end tag closes the open element whatever its
\* name; what follows the end of the root is dropped, and so is character
\* data with a stray markup character and text of white space only.  No tree
\* comes out only when no element was read.
XMLRecover(ts, i, elems, stack) ==
    IF i > Len(ts) THEN
        IF elems = <<>> THEN [status |-> "XMLSyntaxError", elems |-> <<>>]
        ELSE [status |-> "ok", elems |-> elems]
    ELSE
        LET tok == ts[i]
            top == IF stack = <<>> THEN 0 ELSE stack[Len(stack)]
            afterRoot == stack = <<>> /\ elems # <<>>
            nsmap == NsMap(tok, IF top = 0 THEN <<>> ELSE elems[top].nsmap)
        IN
        IF afterRoot /\ (tok.k \in {"open", "empty", "close"} \/
                         (tok.k = "text" /\ ~IsSpaceText(tok.text)))
        THEN [status |-> "ok", elems |-> elems]
        ELSE IF tok.k \in {"open", "empty"} THEN
            IF ~PrefixesBound(tok, nsmap) THEN XMLRecover(ts, i + 1, elems, stack)
            ELSE XMLRecover(ts, i + 1, Append(elems, Element(tok, top, nsmap)),
                            IF tok.k = "open" THEN Append(stack, Len(elems) + 1) ELSE stack)
        ELSE IF tok.k = "close" THEN
            IF stack = <<>> THEN XMLRecover(ts, i + 1, elems, stack)
            ELSE XMLRecover(ts, i + 1, elems, SubSeq(stack, 1, Len(stack) - 1))
        ELSE IF tok.k = "comment" THEN XMLRecover(ts, i + 1, elems, stack)
        ELSE IF stack = <<>> THEN
            IF IsSpaceText(tok.text) THEN XMLRecover(ts, i + 1, elems, stack)
            ELSE [status |-> "XMLSyntaxError", elems |-> <<>>]
        ELSE IF IsSpaceText(tok.text) \/ (tok.lit /\ ~MarkupFree(tok.text))
                \/ HasChild(elems, top)
             THEN XMLRecover(ts, i + 1, elems, stack)
             ELSE XMLRecover(ts, i + 1, [elems EXCEPT ![top].text = @ \o tok.text], stack)

\* importer.load_svg(file_path): FileNotFoundError for a path that is no file,
\* else the tree the recovering parser gives, or its XMLSyntaxError
LoadSvg(path) ==
    /\ ~loadCall.called
    /\ loadCall' =
          IF ~docs[path].exists
          THEN [called |-> TRUE, file_path |-> path, status |-> "FileNotFoundError",
                root |-> <<>>]
          ELSE LET r == XMLRecover(docs[path].text, 1, <<>>, <<>>) IN
               [called |-> TRUE, file_path |-> path, status |-> r.status, root |-> r.elems]
    /\ UNCHANGED <<files, docs, encodeCall, decodeCall, genMetadata, embedCall,
                   embedCount, extractor, extractCall, manager, fileInfoCall, svgCheck,
                   validator, validateCall, lister, listCall, exportCall, batchCall,
                   outDir, dirCall, tasks, selfMetadata, heap>>

-----------------------------------------------------------------------------
(* SVGExporter.export_svg *)

NoExportCall == [called |-> FALSE, runs |-> 0, source |-> <<>>, pretty_print |-> FALSE,
                 status |-> "none", output_path |-> <<>>]

DotSvg == <<".", "s", "v", "g">>

\* lines 54-55: the name gets ".svg" unless it ends with it in any case
EnsureSvgSuffix(filename) ==
    IF EndsWith(Lower(filename), DotSvg) THEN filename ELSE filename \o DotSvg

\* self.output_dir / filename, for an output directory and a plain name
OutputPath(output_dir, filename) == output_dir \o <<"/">> \o filename

\* the namespace URI of a parsed element ("" for none)
UriOf(e) ==
    LET p == NamePrefix(e.qname) IN IF p \in DOMAIN e.nsmap THEN e.nsmap[p] ELSE ""

\* the namespace URIs of the elements in the order ET.tostring meets them
NsUris(elems) ==
    LET first == SelectSeq([i \in 1..Len(elems) |-> i],
                           LAMBDA i : UriOf(elems[i]) # "" /\
                                      \A j \in 1..(i - 1) : UriOf(elems[j]) # UriOf(elems[i]))
    IN  [k \in 1..Len(first) |-> UriOf(elems[first[k]])]

\* the prefix ET.tostring makes up for a URI: ns0, ns1, ...
NsPrefix(uris, uri) == "ns" \o ToString((CHOOSE k \in 1..Len(uris) : uris[k] = uri) - 1)

\* the name ET.tostring writes for an element
SerialTag(e, uris) ==
    IF UriOf(e) = "" THEN e.local ELSE NsPrefix(uris, UriOf(e)) \o ":" \o e.local

\* the attributes ET.tostring writes: for the root the declarations of the
\* made-up prefixes, then the attributes of the element (none of the
\* documents exported here has an attribute in a namespace)
SerialAttrs(elems, i, uris) ==
    IF i = 1
    THEN [a \in {"xmlns:" \o NsPrefix(uris, uris[k]) : k \in 1..Len(uris)} |->
             uris[CHOOSE k \in 1..Len(uris) : "xmlns:" \o NsPrefix(uris, uris[k]) = a]]
         @@ elems[i].attrs
    ELSE elems[i].attrs

\* character data as it is written: markup characters as references
SerialText(text) ==
    IF text = <<>> THEN <<>>
    ELSE IF MarkupFree(text) THEN <<CharData(text)>> ELSE <<EscapedData(text)>>

ChildrenOf(elems, i) ==
    SelectSeq([j \in 1..Len(elems) |-> j], LAMBDA j : elems[j].parent = i)

RECURSIVE SerialTokens(_, _, _, _, _)
\* the text of element i as ET.tostring writes it (pretty FALSE), and as
\* minidom's toprettyxml(indent='  ') writes it at the given depth once the
\* blank lines are removed (pretty TRUE): every child on a line of its own,
\* a text next to children on a line of its own, a text without siblings
\* kept inside its element
SerialTokens(elems, i, uris, pretty, depth) ==
    LET e == elems[i]
        tag == SerialTag(e, uris)
        attrs == SerialAttrs(elems, i, uris)
        kids == ChildrenOf(elems, i)
        line(toks) == IF pretty
                      THEN <<CharData(Indent(depth + 1))>> \o toks \o <<CharData(<<"\n">>)>>
                      ELSE toks
        RECURSIVE Kids(_)
        Kids(k) == IF k > Len(kids) THEN <<>>
                   ELSE line(SerialTokens(elems, kids[k], uris, pretty, depth + 1))
                        \o Kids(k + 1)
    IN  IF kids = <<>> THEN
            IF e.text = <<>> THEN <<EmptyTag(tag, attrs)>>
            ELSE <<OpenTag(tag, attrs)>> \o SerialText(e.text) \o <<CloseTag(tag)>>
        ELSE <<OpenTag(tag, attrs)>>
             \o (IF pretty THEN <<CharData(<<"\n">>)>> ELSE <<>>)
             \o (IF pretty /\ IsSpaceText(e.text) THEN <<>> ELSE line(SerialText(e.text)))
             \o Kids(1)
             \o (IF pretty /\ depth > 0 THEN <<CharData(Indent(depth))>> ELSE <<>>)
             \o <<CloseTag(tag)>>

\* lines 60-95 for a str: the text written, or the ParseError of ET.fromstring;
\* root.attrib['xmlns'] is set because the parser keeps no xmlns attribute
ExportedText(svg_content, pretty_print) ==
    LET r == XMLFromString(svg_content) IN
    IF r.status # "ok" THEN [status |-> "ParseError", text |-> <<>>]
    ELSE LET root == [r.elems EXCEPT ![1].attrs = ("xmlns" :> SvgNsUri) @@ @] IN
         [status |-> "ok",
          text |-> SerialTokens(root, 1, NsUris(root), pretty_print, 0)]

\* exporter.export_svg(svg_content, filename, pretty_print=...) with the text
\* of a document file and no embed_data
ExportSvg(source, output_dir, filename, pretty_print) ==
    /\ docs[source].exists
    /\ LET out == ExportedText(docs[source].text, pretty_print)
           output_path == OutputPath(output_dir, EnsureSvgSuffix(filename))
       IN  /\ exportCall' = [called |-> TRUE, runs |-> exportCall.runs + 1,
                             source |-> docs[source].text,
                             pretty_print |-> pretty_print, status |-> out.status,
                             output_path |-> IF out.status = "ok" THEN output_path ELSE <<>>]
           /\ docs' = IF out.status = "ok"
                      THEN [p \in DOMAIN docs \cup {output_path} |->
                               IF p = output_path THEN DocOf(out.text) ELSE docs[p]]
                      ELSE docs
    /\ UNCHANGED <<files, encodeCall, decodeCall, genMetadata, embedCall, embedCount,
                   extractor, extractCall, manager, fileInfoCall, svgCheck, validator,
                   validateCall, lister, listCall, loadCall, batchCall, outDir, dirCall,
                   tasks, selfMetadata, heap>>

-----------------------------------------------------------------------------
(* BatchProcessor.process_files *)

NoBatchCall == [called |-> FALSE, input_files |-> <<>>, output_format |-> "",
                status |-> "none", failed |-> 0, output_files |-> <<>>]

\* Path('batch_output'), written short
BatchOutputDir == <<"o">>

\* the last component of a path
PathName(path) ==
    IF \E i \in 1..Len(path) : path[i] = "/"
    THEN Drop(path, CHOOSE i \in 1..Len(path) :
                       path[i] = "/" /\ \A j \in (i + 1)..Len(path) : path[j] # "/")
    ELSE path

\* pathlib's PurePath.stem: the name without its suffix
Stem(path) == Take(PathName(path), Len(PathName(path)) - Len(Suffix(PathName(path))))

ExportMark == <<"_", "e", "x", "p", "o", "r", "t">>

\* the body of the loop for one file (lines 61-94): the path written and the
\* documents on disk after it, or the exception raised
ProcessFile(now, file_path, output_format) ==
    IF file_path \notin DOMAIN now \/ ~now[file_path].exists
    THEN [status |-> "FileNotFoundError", docs |-> now, output_path |-> <<>>]
    ELSE IF output_format # "svg"
    THEN [status |-> "ExportError", docs |-> now, output_path |-> <<>>]
    ELSE LET out == ExportedText(now[file_path].text, TRUE)
             output_path == OutputPath(BatchOutputDir,
                                       EnsureSvgSuffix(Stem(file_path) \o ExportMark))
         IN  IF out.status # "ok"
             THEN [status |-> out.status, docs |-> now, output_path |-> <<>>]
             ELSE [status |-> "ok",
                   docs |-> [p \in DOMAIN now \cup {output_path} |->
                                IF p = output_path THEN DocOf(out.text) ELSE now[p]],
                   output_path |-> output_path]

RECURSIVE ProcessLoop(_, _, _, _, _)
\* the loop over input_files: the first exception ends it (lines 96-97)
ProcessLoop(now, input_files, i, output_format, output_files) ==
    IF i > Len(input_files)
    THEN [status |-> "ok", failed |-> 0, docs |-> now, output_files |-> output_files]
    ELSE CHOOSE done \in
             {IF one.status # "ok"
              THEN [status |-> "SVGGError", failed |-> i, docs |-> now,
                    output_files |-> <<>>]
              ELSE ProcessLoop(one.docs, input_files, i + 1, output_format,
                               Append(output_files, one.output_path)) :
                 one \in {ProcessFile(now, input_files[i], output_format)}} : TRUE

\* processor.process_files(input_files, output_format)
ProcessFiles(input_files, output_format) ==
    /\ ~batchCall.called
    /\ LET done == ProcessLoop(docs, input_files, 1, output_format, <<>>) IN
       /\ docs' = done.docs
       /\ batchCall' = [called |-> TRUE, input_files |-> input_files,
                        output_format |-> output_format, status |-> done.status,
                        failed |-> done.failed, output_files |-> done.output_files]
    /\ UNCHANGED <<files, encodeCall, decodeCall, genMetadata, embedCall, embedCount,
                   extractor, extractCall, manager, fileInfoCall, svgCheck, validator,
                   validateCall, lister, listCall, loadCall, exportCall, outDir, dirCall,
                   tasks, selfMetadata, heap>>

-----------------------------------------------------------------------------
(* FileExtractor.extract_to_directory *)
(* A place in the file system is the sequence of the names that lead to it   *)
(* from the root directory.                                                   *)

\* the working directory of the process
WorkDir == <<<<"w">>>>

NoOutDir == [dirs |-> {<<>>, WorkDir}, files |-> <<>>]

NoDirCall == [called |-> FALSE, output_dir |-> <<>>, overwrite |-> FALSE,
              status |-> "none", cause |-> "", returned |-> <<>>, before |-> NoOutDir]

\* FileExtractor(svg_content) with an Element whose class provides xpath (a
\* subclass of ET.Element built from the document, as a caller may pass):
\* _parse_svg keeps the element as it is
NewFileExtractorFromElement(path) ==
    /\ docs[path].exists
    /\ XMLFromString(docs[path].text).status = "ok"
    /\ extractor' = [ParseSvg(docs[path].text) EXCEPT !.xpath = TRUE]
    /\ extractCall' = NoExtractCall
    /\ UNCHANGED <<files, docs, encodeCall, decodeCall, genMetadata, embedCall,
                   embedCount, manager, fileInfoCall, svgCheck, validator, validateCall,
                   lister, listCall, loadCall, exportCall, batchCall, outDir, dirCall,
                   tasks, selfMetadata, heap>>

RECURSIVE SplitPath(_)
\* the names between the separators of a path
SplitPath(path) ==
    IF path = <<>> THEN <<>>
    ELSE IF \E i \in 1..Len(path) : path[i] = "/"
    THEN LET n == CHOOSE i \in 1..Len(path) :
                     path[i] = "/" /\ \A j \in 1..(i - 1) : path[j] # "/"
         IN  (IF n = 1 THEN <<>> ELSE <<SubSeq(path, 1, n - 1)>>) \o SplitPath(Drop(path, n))
    ELSE <<path>>

IsAbsolute(path) == Len(path) > 0 /\ path[1] = "/"

DotDot == <<".", ".">>

RECURSIVE Locate(_, _, _, _)
\* where the operating system finds the path whose names from i on are
\* followed from the directory cur: ".." leads to the parent, and every name
\* but the last must be an existing directory
Locate(dirs, cur, names, i) ==
    IF i > Len(names) THEN [reachable |-> TRUE, place |-> cur]
    ELSE IF names[i] = DotDot
    THEN Locate(dirs, IF cur = <<>> THEN cur ELSE SubSeq(cur, 1, Len(cur) - 1), names, i + 1)
    ELSE IF names[i] = <<".">> THEN Locate(dirs, cur, names, i + 1)
    ELSE IF i < Len(names) /\ Append(cur, names[i]) \notin dirs
    THEN [reachable |-> FALSE, place |-> <<>>]
    ELSE Locate(dirs, Append(cur, names[i]), names, i + 1)

\* the place a directory path without ".." names
DirPlace(output_dir) ==
    IF IsAbsolute(output_dir) THEN SplitPath(output_dir)
    ELSE WorkDir \o SplitPath(output_dir)

\* output_dir / filename (line 123): an absolute filename replaces the
\* directory; the place the operating system resolves the result to
OutputFile(dirs, output_dir, filename) ==
    IF IsAbsolute(filename) THEN Locate(dirs, <<>>, SplitPath(filename), 1)
    ELSE Locate(dirs, <<>>, DirPlace(output_dir) \o SplitPath(filename), 1)

\* a directory and the directories above it
WithParents(place) == {SubSeq(place, 1, n) : n \in 0..Len(place)}

\* output_dir.mkdir(parents=True, exist_ok=True) (line 115)
Mkdir(fs, output_dir) == [fs EXCEPT !.dirs = @ \cup WithParents(DirPlace(output_dir))]

\* file_path.unlink() for each written file that is still there (lines 137-142)
Cleanup(fs, extracted_files) ==
    LET gone == {extracted_files[k] : k \in 1..Len(extracted_files)} IN
    [fs EXCEPT !.files = [p \in DOMAIN fs.files \ gone |-> fs.files[p]]]

RECURSIVE WriteLoop(_, _, _, _, _, _)
\* the loop over the mapping (lines 122-131), and the handler that removes
\* the written files and raises SVGGError (lines 135-143)
WriteLoop(fs, output_dir, items, i, overwrite, extracted_files) ==
    IF i > Len(items) THEN [status |-> "ok", cause |-> "", fs |-> fs,
                            returned |-> extracted_files]
    ELSE
        LET at == OutputFile(fs.dirs, output_dir, items[i].key)
            exists == at.reachable /\ (at.place \in DOMAIN fs.files \/ at.place \in fs.dirs)
            failed(cause) == [status |-> "SVGGError", cause |-> cause,
                              fs |-> Cleanup(fs, extracted_files), returned |-> <<>>]
        IN  IF exists /\ ~overwrite THEN failed("FileExistsError")
            ELSE IF ~at.reachable \/ at.place \in fs.dirs THEN failed("OSError")
            ELSE WriteLoop([fs EXCEPT !.files =
                               [p \in DOMAIN fs.files \cup {at.place} |->
                                   IF p = at.place THEN items[i].val ELSE fs.files[p]]],
                           output_dir, items, i + 1, overwrite,
                           Append(extracted_files, at.place))

\* extractor.extract_to_directory(output_dir, overwrite)
ExtractToDirectory(output_dir, overwrite) ==
    /\ extractor.made /\ extractor.status = "ok"
    /\ ~dirCall.called
    /\ LET made == Mkdir(outDir, output_dir)
           embedded_files == ExtractEmbeddedFilesResult(extractor.root,
                                 CommentsOf(extractor.svg_content), extractor.xpath)
           done == IF embedded_files.status # "ok"
                   THEN [status |-> "SVGGError", cause |-> "SVGGError", fs |-> made,
                         returned |-> <<>>]
                   ELSE WriteLoop(made, output_dir, embedded_files.files.v, 1, overwrite, <<>>)
       IN  /\ outDir' = done.fs
           /\ dirCall' = [called |-> TRUE, output_dir |-> output_dir,
                          overwrite |-> overwrite, status |-> done.status,
                          cause |-> done.cause, returned |-> done.returned,
                          before |-> outDir]
    /\ UNCHANGED <<files, docs, encodeCall, decodeCall, genMetadata, embedCall,
                   embedCount, extractor, extractCall, manager, fileInfoCall, svgCheck,
                   validator, validateCall, lister, listCall, loadCall, exportCall,
                   batchCall, tasks, selfMetadata, heap>>

-----------------------------------------------------------------------------
(* SVGGenerator.embed, statement by statement, for invocations that run at   *)
(* the same time.  self.metadata is a reference to a dictionary object; the  *)
(* objects are numbered: t is the dictionary the caller of invocation t      *)
(* passes, 2 + t the one "metadata or {}" makes for it, 4 + g the one        *)
(* __init__ made for generator g.                                            *)

Threads == {1, 2}

Generators == {1, 2}

DictIds == 1..6

NoTask == [pc |-> "idle", gen |-> 1, svg_file |-> "", files |-> <<>>, output |-> "",
           metadata |-> PyNone, svg_content |-> <<>>, i |-> 1, embedded_files |-> <<>>,
           success |-> FALSE, error |-> ""]

NoTasks == [t \in Threads |-> NoTask]

\* SVGGenerator.__init__: self.metadata = {}
NoSelfMetadata == [g \in Generators |-> 4 + g]

NoHeap == [d \in DictIds |-> PyDict(<<>>)]

\* the except clause of embed: the call ends with success False
EmbedFailed(t, error) ==
    tasks' = [tasks EXCEPT ![t].pc = "done", ![t].success = FALSE, ![t].error = error]

\* line 45: self.metadata = metadata or {}
EmbedAssignMetadata(t) ==
    /\ tasks[t].pc = "start"
    /\ LET fresh == OrEmptyDict(tasks[t].metadata).v = <<>>
           ref == IF fresh THEN 2 + t ELSE t
       IN  /\ selfMetadata' = [selfMetadata EXCEPT ![tasks[t].gen] = ref]
           /\ heap' = [heap EXCEPT ![ref] = OrEmptyDict(tasks[t].metadata)]
    /\ tasks' = [tasks EXCEPT ![t].pc = "clear"]
    /\ UNCHANGED <<files, docs, encodeCall, decodeCall, genMetadata, embedCall,
                   embedCount, extractor, extractCall, manager, fileInfoCall, svgCheck,
                   validator, validateCall, lister, listCall, loadCall, exportCall,
                   batchCall, outDir, dirCall>>

\* line 46: self.metadata['embedded_files'] = []
EmbedClearList(t) ==
    /\ tasks[t].pc = "clear"
    /\ heap' = [heap EXCEPT ![selfMetadata[tasks[t].gen]] =
                   DictSet(@, KeyEmbeddedFiles, PyList(<<>>))]
    /\ tasks' = [tasks EXCEPT ![t].pc = "read"]
    /\ UNCHANGED <<files, docs, encodeCall, decodeCall, genMetadata, embedCall,
                   embedCount, extractor, extractCall, manager, fileInfoCall, svgCheck,
                   validator, validateCall, lister, listCall, loadCall, exportCall,
                   batchCall, outDir, dirCall, selfMetadata>>

\* lines 49-53: the document is read, embedded_files = []
EmbedReadSvg(t) ==
    /\ tasks[t].pc = "read"
    /\ IF docs[tasks[t].svg_file].exists
       THEN tasks' = [tasks EXCEPT ![t].pc = "loop",
                                   ![t].svg_content = docs[tasks[t].svg_file].text,
                                   ![t].i = 1, ![t].embedded_files = <<>>]
       ELSE EmbedFailed(t, "FileNotFoundError")
    /\ UNCHANGED <<files, docs, encodeCall, decodeCall, genMetadata, embedCall,
                   embedCount, extractor, extractCall, manager, fileInfoCall, svgCheck,
                   validator, validateCall, lister, listCall, loadCall, exportCall,
                   batchCall, outDir, dirCall, selfMetadata, heap>>

\* lines 54-79: one turn of the loop; the file_info goes to the list that
\* self.metadata holds at that moment and to the local list
EmbedOneFile(t) ==
    /\ tasks[t].pc = "loop"
    /\ tasks[t].i <= Len(tasks[t].files)
    /\ LET file_path == tasks[t].files[tasks[t].i]
           ref == selfMetadata[tasks[t].gen]
       IN  IF ~PathExists(file_path)
           THEN EmbedFailed(t, "FileNotFoundError") /\ heap' = heap
           ELSE IF ~HasKey(heap[ref], KeyEmbeddedFiles)
           THEN EmbedFailed(t, "KeyError") /\ heap' = heap
           ELSE LET file_info == FileInfo(file_path, files[file_path].data) IN
                /\ heap' = [heap EXCEPT ![ref] =
                               DictSet(@, KeyEmbeddedFiles,
                                       PyList(Append(DictGet(@, KeyEmbeddedFiles).v, file_info)))]
                /\ tasks' = [tasks EXCEPT ![t].i = @ + 1,
                                          ![t].embedded_files = Append(@, file_info)]
    /\ UNCHANGED <<files, docs, encodeCall, decodeCall, genMetadata, embedCall,
                   embedCount, extractor, extractCall, manager, fileInfoCall, svgCheck,
                   validator, validateCall, lister, listCall, loadCall, exportCall,
                   batchCall, outDir, dirCall, selfMetadata>>

\* lines 82-109: json.dumps(self.metadata), the insertion, the output file
EmbedWriteOutput(t) ==
    /\ tasks[t].pc = "loop"
    /\ tasks[t].i > Len(tasks[t].files)
    /\ LET dumped == JsonDumps(heap[selfMetadata[tasks[t].gen]]) IN
       IF dumped.status = "ok"
       THEN /\ docs' = [docs EXCEPT ![tasks[t].output] =
                          DocOf(InsertScript(tasks[t].svg_content,
                                             ScriptContent(dumped.text)))]
            /\ tasks' = [tasks EXCEPT ![t].pc = "done", ![t].success = TRUE]
       ELSE /\ docs' = docs
            /\ EmbedFailed(t, dumped.status)
    /\ UNCHANGED <<files, encodeCall, decodeCall, genMetadata, embedCall, embedCount,
                   extractor, extractCall, manager, fileInfoCall, svgCheck, validator,
                   validateCall, lister, listCall, loadCall, exportCall, batchCall,
                   outDir, dirCall, selfMetadata, heap>>

\* no lister, importer, exporter, batch processor, directory extraction or
\* concurrent invocation has been used
ToolsIdle ==
    /\ lister = NoLister
    /\ listCall = NoListCall
    /\ loadCall = NoLoadCall
    /\ exportCall = NoExportCall
    /\ batchCall = NoBatchCall
    /\ outDir = NoOutDir
    /\ dirCall = NoDirCall
    /\ tasks = NoTasks
    /\ selfMetadata = NoSelfMetadata
    /\ heap = NoHeap

-----------------------------------------------------------------------------
(* Encoding a file and decoding a text into a file *)

InitCodec ==
    /\ \E b \in ByteSeqs, old \in {NoFile, FileOf(<<65>>)} :
          files = [p \in CodecPaths |->
                     IF p = CodecIn THEN FileOf(b)
                     ELSE IF p = CodecOut THEN old ELSE NoFile]
    /\ docs = <<>>
    /\ encodeCall = NoEncodeCall
    /\ decodeCall = NoDecodeCall
    /\ genMetadata = PyDict(<<>>)
    /\ embedCall = NoEmbedCall
    /\ embedCount = 0
    /\ extractor = NoExtractor
    /\ extractCall = NoExtractCall
    /\ manager = NoManager
    /\ fileInfoCall = NoFileInfoCall
    /\ svgCheck = NoSvgCheck
    /\ validator = NoValidator
    /\ validateCall = NoValidateCall
    /\ ToolsIdle

\* one encode and one decode, in either order
NextCodec ==
    \/ \E p \in {CodecIn, CodecNoDir} :
          ~encodeCall.called /\ EncodeFileToBase64(p)
    \/ \E t \in DecodeInputs, p \in {CodecOut, CodecNoDir} :
          ~decodeCall.called /\ DecodeBase64ToFile(t, p)

SpecCodec == InitCodec /\ [][NextCodec]_vars

-----------------------------------------------------------------------------
(* Extraction from documents that hold embedded items *)

\* most embedded items of one encoding in a generated document
MaxItems == 2

ItemNames == {<<"a">>, <<"b">>}

\* payloads: two well-formed ones, one of characters outside the alphabet, a
\* well-formed one followed by such characters, one with its padding missing
ItemPayloads ==
    { B64Encode(<<65>>), B64Encode(<<0, 255, 66>>), <<"@", "@", "@">>,
      <<"Q", "U", "J", "D", "@", "@", "@">>, <<"Q", "Q">> }

AttrItemElement(name, payload) ==
    EmptyTag("rect", (AttrFilename :> name) @@ (AttrContent :> payload))

AttrElements ==
    {AttrItemElement(n, p) : n \in ItemNames, p \in ItemPayloads}
    \cup {EmptyTag("rect", (AttrFilename :> <<"a">>))}

CommentItemNode(name, payload) == Comment(FileMarker \o name \o <<"\n">> \o payload)

CommentNodes ==
    {CommentItemNode(n, p) : n \in ItemNames, p \in {B64Encode(<<66>>), <<"@", "@", "@">>}}

SvgWith(body) == <<OpenTag("svg", NoAttrs)>> \o body \o <<CloseTag("svg")>>

ItemDocs ==
    {SvgWith(a \o c) : a \in SeqsUpTo(AttrElements, MaxItems),
                       c \in SeqsUpTo(CommentNodes, 1)}
    \cup {<<OpenTag("svg", NoAttrs), AttrItemElement(<<"a">>, B64Encode(<<65>>))>>}

InitExtract ==
    /\ \E d \in ItemDocs : docs = [p \in DocPaths |-> IF p = DocIn THEN DocOf(d) ELSE NoDoc]
    /\ files = <<>>
    /\ encodeCall = NoEncodeCall
    /\ decodeCall = NoDecodeCall
    /\ genMetadata = PyDict(<<>>)
    /\ embedCall = NoEmbedCall
    /\ embedCount = 0
    /\ extractor = NoExtractor
    /\ extractCall = NoExtractCall
    /\ manager = NoManager
    /\ fileInfoCall = NoFileInfoCall
    /\ svgCheck = NoSvgCheck
    /\ validator = NoValidator
    /\ validateCall = NoValidateCall
    /\ ToolsIdle

NextExtract ==
    \/ \E p \in DocPaths : ~extractor.made /\ NewFileExtractor(p)
    \/ ExtractEmbeddedFiles

SpecExtract == InitExtract /\ [][NextExtract]_vars

-----------------------------------------------------------------------------
(* Embedding files into a document, then extracting from the output *)

FileA == <<"a", ".", "t", "x", "t">>

FileB == <<"b">>

FileLt == <<"c", "<", "d">>

FileGone == <<"g">>

FileGz == <<"a", ".", "g", "z">>

EmbedFiles == {FileA, FileB, FileLt, FileGone, FileGz}

\* most files in one embed call
MaxFiles == 2

FileLists ==
    SeqsUpTo({FileA, FileLt, FileGone}, MaxFiles)
    \cup {<<FileA, FileB>>, <<FileB, FileA>>, <<FileGz>>}

\* contents of the first file: empty, only NUL bytes, bytes that are no UTF-8
EmbedContents == SeqsUpTo({0}, MaxBytes) \cup {<<65, 255>>}

CallerMetadata ==
    { PyNone,
      PyDict(<<Item(KeyEmbeddedFiles, PyList(<<PyInt(7)>>))>>),
      PyDict(<<Item(<<"a", "u", "t", "h", "o", "r">>, PyStr(<<"m", "e">>))>>),
      PyDict(<<Item(<<"n", "o", "t", "e">>, PyStr(<<"R", "&", "D">>))>>),
      PyDict(<<Item(<<"o", "b", "j">>, PyObject)>>) }

MinimalSvg == <<OpenTag("svg", NoAttrs), CloseTag("svg")>>

\* target documents: minimal; with a child; with a nested svg element; with
\* the end tag written "</svg >"; with the root written "<svg/>"
EmbedDocs ==
    { MinimalSvg,
      <<OpenTag("svg", NoAttrs), EmptyTag("rect", NoAttrs), CloseTag("svg")>>,
      <<OpenTag("svg", NoAttrs), OpenTag("svg", NoAttrs), CloseTag("svg"), CloseTag("svg")>>,
      <<OpenTag("svg", NoAttrs), CloseTagSpaced("svg")>>,
      <<EmptyTag("svg", NoAttrs)>> }

InitEmbed ==
    /\ \E d \in EmbedDocs :
          docs = [p \in DocPaths |-> IF p = DocIn THEN DocOf(d) ELSE NoDoc]
    /\ \E b \in EmbedContents :
          files = [p \in EmbedFiles |->
                     IF p = FileA THEN FileOf(b)
                     ELSE IF p = FileB THEN FileOf(<<>>)
                     ELSE IF p = FileLt THEN FileOf(<<0, 65>>)
                     ELSE IF p = FileGz THEN FileOf(<<31, 139>>)
                     ELSE NoFile]
    /\ encodeCall = NoEncodeCall
    /\ decodeCall = NoDecodeCall
    /\ genMetadata = PyDict(<<>>)
    /\ embedCall = NoEmbedCall
    /\ embedCount = 0
    /\ extractor = NoExtractor
    /\ extractCall = NoExtractCall
    /\ manager = NoManager
    /\ fileInfoCall = NoFileInfoCall
    /\ svgCheck = NoSvgCheck
    /\ validator = NoValidator
    /\ validateCall = NoValidateCall
    /\ ToolsIdle

\* one embed call, then extraction from a document on disk
NextEmbed ==
    \/ \E svg_file \in DocPaths, file_list \in FileLists, metadata \in CallerMetadata :
          ~embedCall.called /\ Embed(svg_file, file_list, DocOut, metadata)
    \/ \E p \in DocPaths : ~extractor.made /\ NewFileExtractor(p)
    \/ ExtractEmbeddedFiles

SpecEmbed == InitEmbed /\ [][NextEmbed]_vars

-----------------------------------------------------------------------------
(* A chain of embed calls, each one free to take the last output as target *)

\* most embed calls in a chain
MaxEmbeds == 2

InitChain ==
    /\ \E d \in EmbedDocs :
          docs = [p \in DocPaths |-> IF p = DocIn THEN DocOf(d) ELSE NoDoc]
    /\ files = [p \in EmbedFiles |->
                  IF p = FileA THEN FileOf(<<65, 255>>)
                  ELSE IF p = FileB THEN FileOf(<<>>)
                  ELSE IF p = FileLt THEN FileOf(<<0, 65>>)
                  ELSE IF p = FileGz THEN FileOf(<<31, 139>>)
                  ELSE NoFile]
    /\ encodeCall = NoEncodeCall
    /\ decodeCall = NoDecodeCall
    /\ genMetadata = PyDict(<<>>)
    /\ embedCall = NoEmbedCall
    /\ embedCount = 0
    /\ extractor = NoExtractor
    /\ extractCall = NoExtractCall
    /\ manager = NoManager
    /\ fileInfoCall = NoFileInfoCall
    /\ svgCheck = NoSvgCheck
    /\ validator = NoValidator
    /\ validateCall = NoValidateCall
    /\ ToolsIdle

\* the file lists of the calls of a chain: no file, files that exist, a
\* missing file alone and after one that exists
ChainFileLists == {<<>>, <<FileA>>, <<FileB, FileA>>, <<FileGone>>, <<FileA, FileGone>>}

ChainMetadata ==
    {PyNone, PyDict(<<Item(<<"a", "u", "t", "h", "o", "r">>, PyStr(<<"m", "e">>))>>)}

NextChain ==
    \E svg_file \in DocPaths, file_list \in ChainFileLists, metadata \in ChainMetadata :
        embedCount < MaxEmbeds /\ Embed(svg_file, file_list, DocOut, metadata)

SpecChain == InitChain /\ [][NextChain]_vars

-----------------------------------------------------------------------------
(* Data URI previews: one embed call, and a MetadataManager that is given   *)
(* the full data URI of a file                                              *)

\* a content whose data URI is longer than the preview
LongContent == [i \in 1..PreviewLen |-> 65]

PreviewContents == ByteSeqs \cup {LongContent}

\* most add_file_metadata calls on one manager
MaxAdds == 2

\* the full data URI of a file on disk, as embed builds it
FullDataUri(file_path) ==
    DataUri(IF GuessType(file_path) = <<>> THEN MimeOctetStream ELSE GuessType(file_path),
            B64Encode(files[file_path].data))

InitPreview ==
    /\ docs = [p \in DocPaths |-> IF p = DocIn THEN DocOf(MinimalSvg) ELSE NoDoc]
    /\ \E b \in PreviewContents :
          files = [p \in EmbedFiles |->
                     IF p = FileA THEN FileOf(b)
                     ELSE IF p = FileB THEN FileOf(<<>>)
                     ELSE NoFile]
    /\ encodeCall = NoEncodeCall
    /\ decodeCall = NoDecodeCall
    /\ genMetadata = PyDict(<<>>)
    /\ embedCall = NoEmbedCall
    /\ embedCount = 0
    /\ extractor = NoExtractor
    /\ extractCall = NoExtractCall
    /\ manager = NoManager
    /\ fileInfoCall = NoFileInfoCall
    /\ svgCheck = NoSvgCheck
    /\ validator = NoValidator
    /\ validateCall = NoValidateCall
    /\ ToolsIdle

NextPreview ==
    \/ \E file_list \in {<<FileA>>, <<FileB, FileA>>} :
          ~embedCall.called /\ Embed(DocIn, file_list, DocOut, PyNone)
    \/ \E metadata \in {PyNone, PyDict(<<Item(KeyPath, PyStr(<<"x">>))>>)} :
          NewMetadataManager(metadata)
    \/ \E f \in {FileA, FileB}, withUri \in BOOLEAN :
          /\ Len(manager.added) < MaxAdds
          /\ AddFileMetadata(f, MimeOctetStream, Len(files[f].data),
                             IF withUri THEN FullDataUri(f) ELSE <<>>)

SpecPreview == InitPreview /\ [][NextPreview]_vars

-----------------------------------------------------------------------------
(* MultiImporter.get_file_info on files of several names *)

ImporterFiles ==
    { <<"a", ".", "t", "x", "t">>,
      <<"a", ".", "T", "X", "T">>,
      <<"a", ".", "j", "s", "o", "n">>,
      <<"a", ".", "g", "z">>,
      <<"a", ".", "t", "a", "r", ".", "g", "z">>,
      <<"a", ".", "G", "z">>,
      <<"a", ".", "m", "d">>,
      <<"a", ".", "b", "i", "n">>,
      <<"a", ".", "q">>,
      <<"b">>,
      <<".", "t", "x", "t">>,
      <<"a", ".">> }

InitImporter ==
    /\ \E b \in ByteSeqs, gone \in ImporterFiles :
          files = [p \in ImporterFiles |-> IF p = gone THEN NoFile ELSE FileOf(b)]
    /\ docs = <<>>
    /\ encodeCall = NoEncodeCall
    /\ decodeCall = NoDecodeCall
    /\ genMetadata = PyDict(<<>>)
    /\ embedCall = NoEmbedCall
    /\ embedCount = 0
    /\ extractor = NoExtractor
    /\ extractCall = NoExtractCall
    /\ manager = NoManager
    /\ fileInfoCall = NoFileInfoCall
    /\ svgCheck = NoSvgCheck
    /\ validator = NoValidator
    /\ validateCall = NoValidateCall
    /\ ToolsIdle

NextImporter ==
    \E file_path \in ImporterFiles : ~fileInfoCall.called /\ GetFileInfo(file_path)

SpecImporter == InitImporter /\ [][NextImporter]_vars

-----------------------------------------------------------------------------
(* SVGImporter.validate_svg on documents of several root names *)

\* longest local name of a root element
MaxNameLen == 4

RootLocalNames == SeqsUpTo({"s", "v", "g", "x"}, MaxNameLen) \ {<<>>}

RootNamespaces == {<<>>, SvgNamespace, <<"u", "r", "n", ":", "x">>}

RootTags == {ClarkTag(uri, local) : uri \in RootNamespaces, local \in RootLocalNames}

InitRootKind ==
    /\ files = <<>>
    /\ docs = <<>>
    /\ encodeCall = NoEncodeCall
    /\ decodeCall = NoDecodeCall
    /\ genMetadata = PyDict(<<>>)
    /\ embedCall = NoEmbedCall
    /\ embedCount = 0
    /\ extractor = NoExtractor
    /\ extractCall = NoExtractCall
    /\ manager = NoManager
    /\ fileInfoCall = NoFileInfoCall
    /\ svgCheck = NoSvgCheck
    /\ validator = NoValidator
    /\ validateCall = NoValidateCall
    /\ ToolsIdle

NextRootKind == \E tag \in RootTags : ~svgCheck.called /\ ValidateSvg(tag)

SpecRootKind == InitRootKind /\ [][NextRootKind]_vars

-----------------------------------------------------------------------------
(* SVGValidator on documents of several roots and children *)

\* most children of the root in a generated document
MaxChildren == 2

\* most validate() calls on one validator
MaxValidations == 2

NsAttrs == ("xmlns" :> SvgNsUri) @@ ("xmlns:xlink" :> XlinkNsUri)

\* attributes of the root: namespace declarations, and some or all of the
\* recommended attributes
RootNsAttrs ==
    {NoAttrs, NsAttrs, ("xmlns" :> "urn:x") @@ ("xmlns:xlink" :> XlinkNsUri)}

RootSizeAttrs ==
    { NoAttrs,
      ("width" :> <<"1">>),
      ("width" :> <<"1">>) @@ ("height" :> <<"1">>) @@ ("viewBox" :> <<"0">>) }

\* root start tags: svg in no namespace, in the SVG namespace (by default and
\* by prefix), in another namespace; a root of another name; an image as root
RootStartTags ==
    {[tag |-> "svg", attrs |-> ns @@ sz] : ns \in RootNsAttrs, sz \in RootSizeAttrs}
    \cup {[tag |-> "s:svg", attrs |-> ("xmlns:s" :> SvgNsUri) @@ sz] : sz \in RootSizeAttrs}
    \cup {[tag |-> "notsvg", attrs |-> sz] : sz \in RootSizeAttrs}
    \cup {[tag |-> "image", attrs |-> NsAttrs]}

\* the attributes of a child: none, all that are required, all but the first
AttrsWith(names) == [a \in {names[i] : i \in 1..Len(names)} |-> <<"a">>]

KindChildren ==
    UNION { { EmptyTag(kind, NoAttrs),
              EmptyTag(kind, AttrsWith(RequiredAttrs[kind])),
              EmptyTag(kind, AttrsWith(Tail(RequiredAttrs[kind]))) }
            : kind \in DOMAIN RequiredAttrs }

\* other children: ids that are valid and not, an unknown element, an image
\* with href in no namespace, a text that reads as a comment
OtherChildren ==
    { EmptyTag("g", ("id" :> <<"a", "-", "1">>)),
      EmptyTag("g", ("id" :> <<"1", "a">>)),
      EmptyTag("foo", NoAttrs),
      EmptyTag("image", AttrsWith(<<"href", "x", "y", "width", "height">>)),
      EscapedData(<<" ">> \o CommentOpen \o <<"c">> \o CommentClose) }

ValidatorDocs ==
    {<<OpenTag(r.tag, r.attrs)>> \o body \o <<CloseTag(r.tag)>> :
        r \in RootStartTags, body \in SeqsUpTo(KindChildren \cup OtherChildren, MaxChildren)}
    \cup {<<EmptyTag(r.tag, r.attrs)>> : r \in RootStartTags}

InitValidate ==
    /\ \E d \in ValidatorDocs :
          docs = [p \in DocPaths |-> IF p = DocIn THEN DocOf(d) ELSE NoDoc]
    /\ files = <<>>
    /\ encodeCall = NoEncodeCall
    /\ decodeCall = NoDecodeCall
    /\ genMetadata = PyDict(<<>>)
    /\ embedCall = NoEmbedCall
    /\ embedCount = 0
    /\ extractor = NoExtractor
    /\ extractCall = NoExtractCall
    /\ manager = NoManager
    /\ fileInfoCall = NoFileInfoCall
    /\ svgCheck = NoSvgCheck
    /\ validator = NoValidator
    /\ validateCall = NoValidateCall
    /\ ToolsIdle

NextValidate ==
    \/ NewSVGValidator(DocIn)
    \/ validateCall.runs < MaxValidations /\ Validate

SpecValidate == InitValidate /\ [][NextValidate]_vars

-----------------------------------------------------------------------------
(* Parsing documents that are well-formed and documents that are not *)

\* well-formed documents, then: a root left open, two elements left open, an
\* end tag of another name, character data only, nothing at all, a second
\* element after the root, a stray "<" in character data, an unbound prefix
ParseDocs ==
    { MinimalSvg,
      <<OpenTag("svg", NoAttrs), EmptyTag("rect", NoAttrs), CloseTag("svg")>>,
      <<OpenTag("svg", NoAttrs)>>,
      <<OpenTag("svg", NoAttrs), OpenTag("g", NoAttrs)>>,
      <<OpenTag("svg", NoAttrs), CloseTag("g")>>,
      <<CharData(<<"h", "i">>)>>,
      <<>>,
      <<EmptyTag("svg", NoAttrs), EmptyTag("g", NoAttrs)>>,
      <<OpenTag("svg", NoAttrs), CharData(<<"a", "<", "b">>), CloseTag("svg")>>,
      <<EmptyTag("s:svg", NoAttrs)>> }

InitParse ==
    /\ \E d \in ParseDocs :
          docs = [p \in DocPaths |-> IF p = DocIn THEN DocOf(d) ELSE NoDoc]
    /\ files = <<>>
    /\ encodeCall = NoEncodeCall
    /\ decodeCall = NoDecodeCall
    /\ genMetadata = PyDict(<<>>)
    /\ embedCall = NoEmbedCall
    /\ embedCount = 0
    /\ extractor = NoExtractor
    /\ extractCall = NoExtractCall
    /\ manager = NoManager
    /\ fileInfoCall = NoFileInfoCall
    /\ svgCheck = NoSvgCheck
    /\ validator = NoValidator
    /\ validateCall = NoValidateCall
    /\ lister = NoLister
    /\ listCall = NoListCall
    /\ loadCall = NoLoadCall
    /\ exportCall = NoExportCall
    /\ batchCall = NoBatchCall
    /\ outDir = NoOutDir
    /\ dirCall = NoDirCall
    /\ tasks = NoTasks
    /\ selfMetadata = NoSelfMetadata
    /\ heap = NoHeap

NextParse ==
    \/ ~extractor.made /\ NewFileExtractor(DocIn)
    \/ NewSVGLister(DocIn)
    \/ NewSVGValidator(DocIn)
    \/ \E p \in DocPaths : LoadSvg(p)

SpecParse == InitParse /\ [][NextParse]_vars

-----------------------------------------------------------------------------
(* SVGLister on documents with embedded items, metadata and comment texts *)

\* most calls of one method on one lister
MaxListings == 2

ItemAttrs == (AttrFilename :> <<"a">>) @@ (AttrContent :> B64Encode(<<65>>))

\* the text of a comment, written with references, that names a file
FileCommentText ==
    EscapedData(CommentOpen \o FileMarker \o <<"b", "\n">> \o B64Encode(<<66>>) \o CommentClose)

\* children: items with both attributes (one with a type), with one of the
\* two only, a plain element, a comment text, a metadata element with a title
ListerChildren ==
    { <<EmptyTag("rect", ItemAttrs)>>,
      <<EmptyTag("rect", ItemAttrs @@ (AttrType :> MimeTextPlain) @@ ("id" :> <<"r">>))>>,
      <<EmptyTag("rect", (AttrFilename :> <<"a">>))>>,
      <<EmptyTag("rect", (AttrContent :> B64Encode(<<65>>)))>>,
      <<EmptyTag("g", ("class" :> <<"c">>))>>,
      <<FileCommentText>>,
      <<OpenTag("g", NoAttrs), EscapedData(CommentOpen \o <<"c">> \o CommentClose),
        CloseTag("g")>>,
      <<OpenTag("metadata", NoAttrs), OpenTag("title", NoAttrs), CharData(<<" ", "T">>),
        CloseTag("title"), CloseTag("metadata")>> }

ListerRoots ==
    { NoAttrs, ("xmlns" :> SvgNsUri) @@ ("width" :> <<"5">>), ItemAttrs,
      (AttrFilename :> <<"r">>), (AttrContent :> B64Encode(<<65>>)) }

ListerDocs ==
    {<<OpenTag("svg", r)>> \o first \o rest \o <<CloseTag("svg")>> :
        r \in ListerRoots, first \in ListerChildren \cup {<<>>},
        rest \in {<<>>, <<EmptyTag("rect", ItemAttrs)>>}}

InitLister ==
    /\ \E d \in ListerDocs :
          docs = [p \in DocPaths |-> IF p = DocIn THEN DocOf(d) ELSE NoDoc]
    /\ files = <<>>
    /\ encodeCall = NoEncodeCall
    /\ decodeCall = NoDecodeCall
    /\ genMetadata = PyDict(<<>>)
    /\ embedCall = NoEmbedCall
    /\ embedCount = 0
    /\ extractor = NoExtractor
    /\ extractCall = NoExtractCall
    /\ manager = NoManager
    /\ fileInfoCall = NoFileInfoCall
    /\ svgCheck = NoSvgCheck
    /\ validator = NoValidator
    /\ validateCall = NoValidateCall
    /\ lister = NoLister
    /\ listCall = NoListCall
    /\ loadCall = NoLoadCall
    /\ exportCall = NoExportCall
    /\ batchCall = NoBatchCall
    /\ outDir = NoOutDir
    /\ dirCall = NoDirCall
    /\ tasks = NoTasks
    /\ selfMetadata = NoSelfMetadata
    /\ heap = NoHeap

NextLister ==
    \/ NewSVGLister(DocIn)
    \/ \E c \in ListerCalls : listCall[c].runs < MaxListings /\ ListerCall(c)

SpecLister == InitLister /\ [][NextLister]_vars

-----------------------------------------------------------------------------
(* SVGExporter.export_svg on a document, and again on what it wrote *)

\* most export_svg calls
MaxExports == 2

ExportIn == <<"i", ".", "s", "v", "g">>

ExportDir == <<"e">>

ExportNames == {<<"x">>, <<"y", ".", "S", "V", "G">>}

\* roots without a namespace, in the SVG namespace, in another namespace
ExportRoots == {NoAttrs, ("xmlns" :> SvgNsUri), ("xmlns" :> "urn:x") @@ ("width" :> <<"5">>)}

\* bodies: nothing, an item in attributes, a text, a text next to a child, a
\* nested child, an item in a comment, a text that reads as a comment
ExportBodies ==
    { <<>>,
      <<EmptyTag("rect", ItemAttrs)>>,
      <<OpenTag("text", NoAttrs), CharData(<<"h", "i">>), CloseTag("text")>>,
      <<CharData(<<"h", "i">>), EmptyTag("g", NoAttrs)>>,
      <<OpenTag("g", NoAttrs), EmptyTag("rect", NoAttrs), CloseTag("g")>>,
      <<CommentItemNode(<<"b">>, B64Encode(<<66>>))>>,
      <<FileCommentText, EmptyTag("g", NoAttrs)>> }

ExportDocs ==
    {<<OpenTag("svg", r)>> \o body \o <<CloseTag("svg")>> : r \in ExportRoots, body \in ExportBodies}
    \cup {<<EmptyTag("svg", r)>> : r \in ExportRoots}
    \cup {<<OpenTag("svg", NoAttrs)>>}

InitExport ==
    /\ \E d \in ExportDocs : docs = [p \in {ExportIn} |-> DocOf(d)]
    /\ files = <<>>
    /\ encodeCall = NoEncodeCall
    /\ decodeCall = NoDecodeCall
    /\ genMetadata = PyDict(<<>>)
    /\ embedCall = NoEmbedCall
    /\ embedCount = 0
    /\ extractor = NoExtractor
    /\ extractCall = NoExtractCall
    /\ manager = NoManager
    /\ fileInfoCall = NoFileInfoCall
    /\ svgCheck = NoSvgCheck
    /\ validator = NoValidator
    /\ validateCall = NoValidateCall
    /\ lister = NoLister
    /\ listCall = NoListCall
    /\ loadCall = NoLoadCall
    /\ exportCall = NoExportCall
    /\ batchCall = NoBatchCall
    /\ outDir = NoOutDir
    /\ dirCall = NoDirCall
    /\ tasks = NoTasks
    /\ selfMetadata = NoSelfMetadata
    /\ heap = NoHeap

NextExport ==
    /\ exportCall.runs < MaxExports
    /\ \E source \in DOMAIN docs, filename \in ExportNames, pretty_print \in BOOLEAN :
          ExportSvg(source, ExportDir, filename, pretty_print)

SpecExport == InitExport /\ [][NextExport]_vars

-----------------------------------------------------------------------------
(* BatchProcessor.process_files on lists of input documents *)

\* most input documents of one batch
MaxBatch == 3

BatchA == <<"a", ".", "s", "v", "g">>

BatchB == <<"b", ".", "s", "v", "g">>

BatchC == <<"d", "/", "c", ".", "s", "v", "g">>

BatchInputs == {BatchA, BatchB, BatchC}

InitBatch ==
    /\ \E a \in {MinimalSvg, <<EmptyTag("svg", ("xmlns" :> SvgNsUri))>>},
          b \in {DocOf(MinimalSvg), DocOf(<<OpenTag("svg", NoAttrs)>>), NoDoc},
          c \in {DocOf(<<OpenTag("svg", NoAttrs), EmptyTag("g", NoAttrs), CloseTag("svg")>>),
                 NoDoc} :
          docs = [p \in BatchInputs |->
                     IF p = BatchA THEN DocOf(a) ELSE IF p = BatchB THEN b ELSE c]
    /\ files = <<>>
    /\ encodeCall = NoEncodeCall
    /\ decodeCall = NoDecodeCall
    /\ genMetadata = PyDict(<<>>)
    /\ embedCall = NoEmbedCall
    /\ embedCount = 0
    /\ extractor = NoExtractor
    /\ extractCall = NoExtractCall
    /\ manager = NoManager
    /\ fileInfoCall = NoFileInfoCall
    /\ svgCheck = NoSvgCheck
    /\ validator = NoValidator
    /\ validateCall = NoValidateCall
    /\ lister = NoLister
    /\ listCall = NoListCall
    /\ loadCall = NoLoadCall
    /\ exportCall = NoExportCall
    /\ batchCall = NoBatchCall
    /\ outDir = NoOutDir
    /\ dirCall = NoDirCall
    /\ tasks = NoTasks
    /\ selfMetadata = NoSelfMetadata
    /\ heap = NoHeap

NextBatch ==
    \E input_files \in SeqsUpTo(BatchInputs, MaxBatch), output_format \in {"svg", "png"} :
        ProcessFiles(input_files, output_format)

SpecBatch == InitBatch /\ [][NextBatch]_vars

-----------------------------------------------------------------------------
(* FileExtractor.extract_to_directory into a directory that may hold files *)

OutName == <<"o", "u", "t">>

OutPlace == DirPlace(OutName)

\* names of embedded items: plain ones, one in a directory that is not
\* there, one that leaves the directory, an absolute one
DirNames ==
    { <<"a">>, <<"b">>, <<"s", "/", "b">>, <<".", ".", "/", "x">>, <<"/", "x">> }

DirItems == {EmptyTag("rect", (AttrFilename :> n) @@ (AttrContent :> B64Encode(<<65>>))) :
                n \in DirNames}

DirDocs == {SvgWith(items) : items \in SeqsUpTo(DirItems, MaxItems)}

OldContent == <<0>>

\* the file system before the call: the directory is there or not, with or
\* without a file "a" in it, with or without files "x" beside it and at the root
DirStates ==
    {[dirs |-> {<<>>, WorkDir} \cup made,
      files |-> [p \in inside \cup beside |-> OldContent]] :
        made \in {{}, {OutPlace}},
        inside \in {{}, {Append(OutPlace, <<"a">>)}},
        beside \in SUBSET {Append(WorkDir, <<"x">>), <<<<"x">>>>}}

InitExtractDir ==
    /\ \E d \in DirDocs :
          docs = [p \in DocPaths |-> IF p = DocIn THEN DocOf(d) ELSE NoDoc]
    /\ \E fs \in DirStates :
          /\ \A p \in DOMAIN fs.files : SubSeq(p, 1, Len(p) - 1) \in fs.dirs
          /\ outDir = fs
    /\ files = <<>>
    /\ encodeCall = NoEncodeCall
    /\ decodeCall = NoDecodeCall
    /\ genMetadata = PyDict(<<>>)
    /\ embedCall = NoEmbedCall
    /\ embedCount = 0
    /\ extractor = NoExtractor
    /\ extractCall = NoExtractCall
    /\ manager = NoManager
    /\ fileInfoCall = NoFileInfoCall
    /\ svgCheck = NoSvgCheck
    /\ validator = NoValidator
    /\ validateCall = NoValidateCall
    /\ lister = NoLister
    /\ listCall = NoListCall
    /\ loadCall = NoLoadCall
    /\ exportCall = NoExportCall
    /\ batchCall = NoBatchCall
    /\ dirCall = NoDirCall
    /\ tasks = NoTasks
    /\ selfMetadata = NoSelfMetadata
    /\ heap = NoHeap

NextExtractDir ==
    \/ ~extractor.made /\ NewFileExtractor(DocIn)
    \/ ~extractor.made /\ NewFileExtractorFromElement(DocIn)
    \/ \E overwrite \in BOOLEAN : ExtractToDirectory(OutName, overwrite)

SpecExtractDir == InitExtractDir /\ [][NextExtractDir]_vars

-----------------------------------------------------------------------------
(* Two embed invocations at the same time, on one generator or on two *)

ConcIn == [t \in Threads |-> IF t = 1 THEN "in1.svg" ELSE "in2.svg"]

ConcOut == [t \in Threads |-> IF t = 1 THEN "out1.svg" ELSE "out2.svg"]

ConcPaths == {ConcIn[t] : t \in Threads} \cup {ConcOut[t] : t \in Threads}

\* the files each invocation embeds
ConcFiles ==
    [t \in Threads |-> IF t = 1 THEN {<<FileA>>, <<FileA, FileLt>>} ELSE {<<FileB>>, <<>>}]

\* the metadata each caller passes: none, or a dictionary of its own
ConcMetadata ==
    [t \in Threads |->
        {PyNone,
         PyDict(<<Item(<<"o", "w", "n", "e", "r">>, PyStr(<<IF t = 1 THEN "1" ELSE "2">>))>>)}]

InitConcurrent ==
    /\ docs = [p \in ConcPaths |->
                  IF \E t \in Threads : p = ConcIn[t] THEN DocOf(MinimalSvg) ELSE NoDoc]
    /\ files = [p \in EmbedFiles |-> IF p = FileGone THEN NoFile ELSE FileOf(<<65>>)]
    /\ \E shared \in BOOLEAN :
       \E fl \in [Threads -> UNION {ConcFiles[t] : t \in Threads}],
          md \in [Threads -> UNION {ConcMetadata[t] : t \in Threads}] :
          /\ \A t \in Threads : fl[t] \in ConcFiles[t] /\ md[t] \in ConcMetadata[t]
          /\ tasks = [t \in Threads |->
                         [NoTask EXCEPT !.pc = "start",
                                        !.gen = IF shared THEN 1 ELSE t,
                                        !.svg_file = ConcIn[t], !.files = fl[t],
                                        !.output = ConcOut[t], !.metadata = md[t]]]
    /\ encodeCall = NoEncodeCall
    /\ decodeCall = NoDecodeCall
    /\ genMetadata = PyDict(<<>>)
    /\ embedCall = NoEmbedCall
    /\ embedCount = 0
    /\ extractor = NoExtractor
    /\ extractCall = NoExtractCall
    /\ manager = NoManager
    /\ fileInfoCall = NoFileInfoCall
    /\ svgCheck = NoSvgCheck
    /\ validator = NoValidator
    /\ validateCall = NoValidateCall
    /\ lister = NoLister
    /\ listCall = NoListCall
    /\ loadCall = NoLoadCall
    /\ exportCall = NoExportCall
    /\ batchCall = NoBatchCall
    /\ outDir = NoOutDir
    /\ dirCall = NoDirCall
    /\ selfMetadata = NoSelfMetadata
    /\ heap = NoHeap

NextConcurrent ==
    \E t \in Threads :
        \/ EmbedAssignMetadata(t)
        \/ EmbedClearList(t)
        \/ EmbedReadSvg(t)
        \/ EmbedOneFile(t)
        \/ EmbedWriteOutput(t)

SpecConcurrent == InitConcurrent /\ [][NextConcurrent]_vars

-----------------------------------------------------------------------------
(* What the claims speak of *)

\* a base64 text in the sense of RFC 4648: only characters of the alphabet,
\* a length that is a multiple of four, and "=" only as the last one or two
WellFormedB64(t) ==
    /\ Len(t) % 4 = 0
    /\ \A i \in 1..Len(t) : IsB64Char(t[i]) \/ t[i] = "="
    /\ \A i \in 1..Len(t) :
          t[i] = "=" => /\ i >= Len(t) - 1
                        /\ (i = Len(t) - 1 => t[Len(t)] = "=")

\* the attribute-encoded items of a parsed document, in document order
AttrItemsOf(root) ==
    LET both == SelectSeq(root, LAMBDA e : HasAttr(e, AttrFilename) /\ HasAttr(e, AttrContent))
    IN  [i \in 1..Len(both) |->
            [name |-> both[i].attrs[AttrFilename], payload |-> both[i].attrs[AttrContent]]]

IsCommentItem(c) ==
    StartsWith(c.text, FileMarker) /\ Len(SplitFirstLine(c.text)) = 2

\* the comment-encoded items of a document text, in document order
CommentItemsOf(ts) ==
    LET marked == SelectSeq(CommentsOf(ts), IsCommentItem)
    IN  [i \in 1..Len(marked) |->
            [name |-> Drop(SplitFirstLine(marked[i].text)[1], 5),
             payload |-> SplitFirstLine(marked[i].text)[2]]]

\* the items of the extractor's document in the fixed traversal order
ItemsInOrder == AttrItemsOf(extractor.root) \o CommentItemsOf(extractor.svg_content)

WellFormedItems == SelectSeq(ItemsInOrder, LAMBDA it : WellFormedB64(it.payload))

FirstItemNamed(items, name) ==
    items[CHOOSE i \in 1..Len(items) :
             items[i].name = name /\ \A j \in 1..(i - 1) : items[j].name # name]

\* the texts of the metadata blocks written in a document text
WrittenMetadata(ts) ==
    {Strip(ts[i + 1].text) : i \in {j \in 1..(Len(ts) - 1) :
          /\ ts[j].k = "open" /\ ts[j].tag = "script"
          /\ HasAttr(ts[j], "id") /\ ts[j].attrs["id"] = MetadataId
          /\ ts[j + 1].k = "text"}}

\* the script elements with id svgg-metadata of a parsed document
MetadataElements(elems) ==
    {i \in 1..Len(elems) :
        /\ elems[i].tag = "script"
        /\ HasAttr(elems[i], "id") /\ elems[i].attrs["id"] = MetadataId}

\* entry i of an embedded_files list describes file i of the call
DescribesFiles(entries, file_list) ==
    /\ Len(entries) = Len(file_list)
    /\ \A i \in 1..Len(file_list) :
          /\ DictGet(entries[i], KeyPath) = PyStr(file_list[i])
          /\ DictGet(entries[i], KeySize) = PyInt(Len(files[file_list[i]].data))

\* the entries of a list of findings that have a given code
WithCode(findings, code) == SelectSeq(findings, LAMBDA f : f.code = code)

\* the positions of the elements of a parsed document
ElementsOf(root) == 1..Len(root)

\* an element carries a required attribute; xlink:href is carried when the
\* document gives href in the xlink namespace
Carries(elem, attr) ==
    IF attr = "xlink:href" THEN Clark(XlinkNsUri, "href") \in DOMAIN elem.attrs
    ELSE attr \in DOMAIN elem.attrs

\* the local name of a tag given as "{uri}local" or "local"
LocalPart(tag) ==
    IF Len(tag) > 0 /\ tag[1] = "{" /\ \E i \in 1..Len(tag) : tag[i] = "}"
    THEN Drop(tag, CHOOSE i \in 1..Len(tag) :
                      tag[i] = "}" /\ \A j \in (i + 1)..Len(tag) : tag[j] # "}")
    ELSE tag

\* a preview is a prefix of the full data URI of at most PreviewLen characters
IsPreviewOf(preview, full) == Len(preview) <= PreviewLen /\ StartsWith(full, preview)

-----------------------------------------------------------------------------
(* The claims *)

\* C1: embedding readable files into a minimal document and extracting from
\* the written output gives a mapping that holds every embedded file's name
\* with exactly its bytes.
C1_EmbedExtractRoundTrip ==
    ( /\ embedCall.called /\ embedCall.success
      /\ embedCall.svg_file = DocIn /\ docs[DocIn].text = MinimalSvg
      /\ Len(embedCall.files) > 0
      /\ extractCall.called /\ extractor.svg_content = docs[DocOut].text )
    => /\ extractCall.status = "ok"
       /\ \A i \in 1..Len(embedCall.files) :
             /\ HasKey(extractCall.files, embedCall.files[i])
             /\ DictGet(extractCall.files, embedCall.files[i])
                  = files[embedCall.files[i]].data

\* C2: when several items of a document have the same name, the returned
\* mapping holds the content of the first of them in the traversal order.
C2_FirstOccurrenceKept ==
    ( /\ extractCall.called
      /\ \E i, j \in 1..Len(WellFormedItems) :
            i < j /\ WellFormedItems[i].name = WellFormedItems[j].name )
    => /\ extractCall.status = "ok"
       /\ \A i \in 1..Len(WellFormedItems) :
             LET name == WellFormedItems[i].name IN
             /\ HasKey(extractCall.files, name)
             /\ DictGet(extractCall.files, name)
                  = B64Decode(FirstItemNamed(WellFormedItems, name).payload).data

\* C3: extraction from a document that parsed returns a mapping and never raises.
C3_ExtractNeverRaises ==
    extractCall.called => extractCall.status = "ok"

\* C4: from a document with one attribute-encoded and one comment-encoded item
\* of different names, extraction returns both names with their decoded bytes.
C4_BothEncodingsReturned ==
    ( /\ extractCall.called
      /\ Len(AttrItemsOf(extractor.root)) = 1
      /\ Len(CommentItemsOf(extractor.svg_content)) = 1
      /\ Len(WellFormedItems) = 2
      /\ WellFormedItems[1].name # WellFormedItems[2].name )
    => /\ extractCall.status = "ok"
       /\ \A i \in 1..2 :
             /\ HasKey(extractCall.files, WellFormedItems[i].name)
             /\ DictGet(extractCall.files, WellFormedItems[i].name)
                  = B64Decode(WellFormedItems[i].payload).data

\* C5: an item with a malformed base64 payload is skipped, its name is absent
\* from the returned mapping, and every well-formed item is still present.
C5_MalformedItemSkipped ==
    ( /\ extractCall.called
      /\ \E i \in 1..Len(ItemsInOrder) : ~WellFormedB64(ItemsInOrder[i].payload)
      /\ \A i, j \in 1..Len(ItemsInOrder) :
            i # j => ItemsInOrder[i].name # ItemsInOrder[j].name )
    => /\ extractCall.status = "ok"
       /\ \A i \in 1..Len(ItemsInOrder) :
             LET it == ItemsInOrder[i] IN
             IF WellFormedB64(it.payload)
             THEN /\ HasKey(extractCall.files, it.name)
                  /\ DictGet(extractCall.files, it.name) = B64Decode(it.payload).data
             ELSE ~HasKey(extractCall.files, it.name)

\* C6: decoding the text that encode_file_to_base64 gave for a file into a
\* writable path writes a file whose content is that file's bytes.
C6_EncodeDecodeRoundTrip ==
    ( /\ decodeCall.called /\ encodeCall.status = "ok"
      /\ decodeCall.encoded_data = encodeCall.text
      /\ DirExists(decodeCall.path) )
    => /\ decodeCall.status = "ok"
       /\ files[decodeCall.path] = FileOf(encodeCall.bytes)

\* C6 witness: a file with a byte that is no UTF-8 and a length that needs
\* padding was encoded, and its text decoded into a file.
C6_Witness ==
    /\ decodeCall.called /\ decodeCall.status = "ok"
    /\ encodeCall.status = "ok" /\ decodeCall.encoded_data = encodeCall.text
    /\ Len(encodeCall.bytes) = 2
    /\ encodeCall.bytes[1] = 255 /\ encodeCall.bytes[2] = 0
    /\ files[CodecOut] = FileOf(<<255, 0>>)

\* C7: decode_base64_to_file fails on every text that has a character outside
\* the base64 alphabet or invalid padding, and then leaves the output file as
\* it was.
C7_DecodeRejectsMalformed ==
    (decodeCall.called /\ ~WellFormedB64(decodeCall.encoded_data))
    => /\ decodeCall.status \in {"ValueError", "IOError"}
       /\ files[decodeCall.path] = decodeCall.before

\* C8: after a successful embed of n files, the returned list and the
\* embedded_files list of every metadata block written have n entries, entry
\* i describing file i with the byte length of that file as its size.
C8_MetadataDescribesFiles ==
    (embedCall.called /\ embedCall.success)
    => /\ DescribesFiles(embedCall.embedded_files, embedCall.files)
       /\ WrittenMetadata(docs[embedCall.output].text) # {}
       /\ \A text \in WrittenMetadata(docs[embedCall.output].text) :
             LET loaded == JsonLoads(text) IN
             /\ loaded.status = "ok"
             /\ HasKey(loaded.val, KeyEmbeddedFiles)
             /\ DescribesFiles(DictGet(loaded.val, KeyEmbeddedFiles).v, embedCall.files)

\* C8 witness: two files were embedded, an empty one and one with a NUL byte.
C8_Witness ==
    /\ embedCall.called /\ embedCall.success
    /\ embedCall.files = <<FileB, FileA>>
    /\ files[FileB].data = <<>>
    /\ files[FileA].data = <<0, 0>>
    /\ DictGet(embedCall.embedded_files[1], KeySize) = PyInt(0)
    /\ DictGet(embedCall.embedded_files[2], KeySize) = PyInt(2)

\* C9: after a successful embed into a well-formed document without a metadata
\* block, the output is well-formed, has exactly one svgg-metadata script
\* element, that element is the last child of the root, and its text is the
\* JSON text of the metadata map.
C9_OneTrailingMetadataBlock ==
    ( /\ embedCall.called /\ embedCall.success /\ embedCall.svg_file = DocIn
      /\ XMLFromString(docs[DocIn].text).status = "ok" )
    => LET parsed == XMLFromString(docs[DocOut].text)
           blocks == MetadataElements(parsed.elems)
       IN  /\ parsed.status = "ok"
           /\ Cardinality(blocks) = 1
           /\ \A b \in blocks :
                 /\ parsed.elems[b].parent = 1
                 /\ \A i \in 1..Len(parsed.elems) : parsed.elems[i].parent = 1 => i <= b
                 /\ JsonLoads(Strip(parsed.elems[b].text)) = [status |-> "ok", val |-> genMetadata]

\* C10: after a chain of embed calls that starts from a minimal document, each
\* later call taking the previous output as its target, the document holds a
\* single svgg-metadata script element.
C10_SingleMetadataBlockAfterChain ==
    ( /\ docs[DocIn].text = MinimalSvg
      /\ embedCall.called /\ embedCall.success
      /\ \/ embedCount = 1 /\ embedCall.svg_file = DocIn
         \/ embedCall.chained )
    => Cardinality({i \in 1..Len(docs[DocOut].text) :
                      /\ docs[DocOut].text[i].k = "open"
                      /\ docs[DocOut].text[i].tag = "script"
                      /\ docs[DocOut].text[i].attrs["id"] = MetadataId}) = 1

\* C11: when the text of the target document does not contain the end tag
\* </svg> of the root, embed reports failure and writes no output file.
C11_FailsWithoutClosingTag ==
    ( /\ embedCall.called /\ docs[embedCall.svg_file].exists
      /\ embedCall.svg_file = DocIn
      /\ \A i \in 1..Len(docs[DocIn].text) : docs[DocIn].text[i] # SvgClose )
    => /\ ~embedCall.success
       /\ ~docs[embedCall.output].exists

\* C12: an embed call whose list names a file that does not exist returns
\* success false with an error message and an empty embedded_files list, and
\* leaves every document on disk, the output included, as it was.
C12_MissingFileFailsCleanly ==
    [][ ( /\ embedCount' # embedCount
          /\ \E i \in 1..Len(embedCall'.files) : ~files[embedCall'.files[i]].exists )
        => /\ ~embedCall'.success
           /\ embedCall'.error # ""
           /\ embedCall'.embedded_files = <<>>
           /\ docs' = docs ]_vars

\* C12 witness: a second embed call named an existing file and then a missing
\* one, failed, and the output of the first call is still on disk.
C12_Witness ==
    /\ embedCount = 2
    /\ embedCall.files = <<FileA, FileGone>>
    /\ ~embedCall.success /\ embedCall.error = "FileNotFoundError"
    /\ embedCall.embedded_files = <<>>
    /\ docs[DocOut].exists

\* C13: every data-URI preview stored in the metadata, by embed and by
\* MetadataManager.add_file_metadata, is a prefix of the full data URI of the
\* file and is at most 100 characters long.
C13_PreviewIsShortPrefix ==
    /\ (embedCall.called /\ embedCall.success)
       => \A i \in 1..Len(embedCall.files) :
             IsPreviewOf(DictGet(DictGet(genMetadata, KeyEmbeddedFiles).v[i], KeyDataUri).v,
                         FullDataUri(embedCall.files[i]))
    /\ \A i \in 1..Len(manager.added) :
          Len(manager.added[i].data_uri) > 0
          => IsPreviewOf(DictGet(DictGet(manager.metadata, KeyEmbeddedFiles).v[i], KeyDataUri).v,
                         manager.added[i].data_uri)

\* C14: for an existing file get_file_info gives the static table's type when
\* the lowercased extension is in the table, whatever the guesser says; the
\* guesser's type otherwise; application/octet-stream when the guesser has
\* none; and in every case a text.
C14_TableThenGuesserThenDefault ==
    (fileInfoCall.called /\ fileInfoCall.status = "ok")
    => LET ext == Lower(Suffix(fileInfoCall.file_path))
           guessed == GuessType(fileInfoCall.file_path)
           mime_type == fileInfoCall.info.mime_type
       IN  /\ Len(mime_type) > 0
           /\ fileInfoCall.info.extension = ext
           /\ ext \in DOMAIN SUPPORTED_FORMATS => mime_type = SUPPORTED_FORMATS[ext]
           /\ (ext \notin DOMAIN SUPPORTED_FORMATS /\ guessed # <<>>) => mime_type = guessed
           /\ (ext \notin DOMAIN SUPPORTED_FORMATS /\ guessed = <<>>) => mime_type = MimeOctetStream

\* C14 witness: get_file_info was asked about a.tar.gz, for which the guesser
\* says application/x-tar, and gave the table's application/gzip.
C14_Witness ==
    /\ fileInfoCall.called /\ fileInfoCall.status = "ok"
    /\ fileInfoCall.file_path = <<"a", ".", "t", "a", "r", ".", "g", "z">>
    /\ GuessType(fileInfoCall.file_path) = TypesMap[<<".", "t", "a", "r">>]
    /\ fileInfoCall.info.mime_type = SUPPORTED_FORMATS[<<".", "g", "z">>]

\* C15: the mime_type embed records for a file is the type the MIME resolver
\* (table, then guesser, then application/octet-stream) gives for its name.
C15_RecordedTypeIsResolved ==
    (embedCall.called /\ embedCall.success)
    => \A i \in 1..Len(embedCall.files) :
          DictGet(embedCall.embedded_files[i], KeyMimeType)
            = PyStr(FileInfoOf(embedCall.files[i]).mime_type)

\* C16: validate() reports INVALID_ROOT exactly when the local name of the
\* root element is not svg.
C16_InvalidRootIffNotSvg ==
    validateCall.called
    => ( Len(WithCode(validateCall.errors, "INVALID_ROOT")) > 0
         <=> validator.root[1].local # "svg" )

\* C17: for each element of kind image, use, linearGradient, radialGradient
\* or stop and each attribute required of it, validate() reports as many
\* MISSING_ATTR errors naming that kind and attribute as there are elements of
\* the kind that do not carry the attribute.
C17_MissingAttrPerLackingAttribute ==
    validateCall.called
    => \A kind \in DOMAIN RequiredAttrs :
          \A n \in 1..Len(RequiredAttrs[kind]) :
             LET attr == RequiredAttrs[kind][n] IN
             Len(SelectSeq(validateCall.errors,
                           LAMBDA f : f.code = "MISSING_ATTR" /\ f.element = kind
                                      /\ f.attribute = attr))
               = Cardinality({i \in ElementsOf(validator.root) :
                                 /\ validator.root[i].local = kind
                                 /\ ~Carries(validator.root[i], attr)})

\* C18: is_valid is true exactly when the error list is empty, whatever the
\* warnings; and every rule has been evaluated whatever errors there are: the
\* warnings for the root's attributes and for unknown elements, the errors for
\* invalid ids and for required attributes are all reported.
C18_ValidIffNoErrors ==
    validateCall.called
    => /\ validateCall.is_valid <=> Len(validateCall.errors) = 0
       /\ \A attr \in {"width", "height", "viewBox"} :
             attr \notin DOMAIN validator.root[1].attrs
             => Len(WithCode(validateCall.warnings, RootAttrCode[attr])) = 1
       /\ Len(WithCode(validateCall.warnings, "UNKNOWN_ELEMENT"))
            = Cardinality({i \in ElementsOf(validator.root) :
                              validator.root[i].local \notin ValidElements})
       /\ Len(WithCode(validateCall.errors, "INVALID_ID"))
            = Cardinality({i \in ElementsOf(validator.root) :
                              /\ "id" \in DOMAIN validator.root[i].attrs
                              /\ ~IsValidId(validator.root[i].attrs["id"])})
       /\ \A i \in ElementsOf(validator.root) :
             (validator.root[i].local = "stop" /\ "offset" \notin DOMAIN validator.root[i].attrs)
             => \E k \in 1..Len(validateCall.errors) :
                   validateCall.errors[k] = Finding("MISSING_ATTR", "stop", "offset")

\* C18 witness: a document whose root is not the SVG element, with a stop
\* that lacks offset and an element whose id is invalid, was validated: all
\* three errors and the warnings are there.
C18_Witness ==
    /\ validateCall.called /\ ~validateCall.is_valid
    /\ Len(WithCode(validateCall.errors, "INVALID_ROOT")) = 1
    /\ Len(WithCode(validateCall.errors, "INVALID_ID")) = 1
    /\ \E k \in 1..Len(validateCall.errors) :
          validateCall.errors[k] = Finding("MISSING_ATTR", "stop", "offset")
    /\ Len(validateCall.warnings) = 4

\* C19: validate() adds exactly one warning MISSING_WIDTH, MISSING_HEIGHT,
\* MISSING_VIEWBOX for each of these attributes the root lacks, none for one
\* it has, and no error about them on an svg root; a document that is only a
\* root in the SVG namespace without them is valid, with 3 warnings, 0 errors.
C19_RootAttributeWarnings ==
    validateCall.called
    => /\ \A attr \in {"width", "height", "viewBox"} :
             Len(WithCode(validateCall.warnings, RootAttrCode[attr]))
               = IF attr \in DOMAIN validator.root[1].attrs THEN 0 ELSE 1
       /\ validator.root[1].local = "svg"
          => \A k \in 1..Len(validateCall.errors) :
                ~ /\ validateCall.errors[k].element = "svg"
                  /\ validateCall.errors[k].attribute \in {"width", "height", "viewBox"}
       /\ ( /\ Len(validator.root) = 1
            /\ validator.root[1].tag = Clark(SvgNsUri, "svg")
            /\ DOMAIN validator.root[1].attrs = {} )
          => /\ validateCall.is_valid
             /\ Len(validateCall.warnings) = 3
             /\ Len(validateCall.errors) = 0

\* C19 witness: a document that is only a root in the SVG namespace, without
\* width, height and viewBox, was validated.
C19_Witness ==
    /\ validateCall.called
    /\ Len(validator.root) = 1
    /\ validator.root[1].tag = Clark(SvgNsUri, "svg")
    /\ DOMAIN validator.root[1].attrs = {}
    /\ validateCall.is_valid
    /\ Len(validateCall.warnings) = 3

\* C20: validate_svg returns true exactly when the local name of the root
\* element, the namespace stripped, is svg.
C20_RootKindIffLocalNameSvg ==
    svgCheck.called
    => (svgCheck.result <=> LocalPart(svgCheck.tag) = <<"s", "v", "g">>)

-----------------------------------------------------------------------------
(* What the claims on parsing, listing, export and extraction speak of *)

\* the document file is there and its text is not well-formed
IllFormed(path) == docs[path].exists /\ XMLFromString(docs[path].text).status # "ok"

\* two parsed documents have the same elements: names, attributes, text up
\* to white space around it, and parents
SameTree(a, b) ==
    /\ Len(a) = Len(b)
    /\ \A i \in 1..Len(a) :
          /\ a[i].tag = b[i].tag
          /\ a[i].attrs = b[i].attrs
          /\ Strip(a[i].text) = Strip(b[i].text)
          /\ a[i].parent = b[i].parent

\* the embedded items of a document text: names and decoded bytes
ItemSetOf(ts) ==
    LET items == AttrItemsOf(XMLFromString(ts).elems) \o CommentItemsOf(ts) IN
    {[name |-> items[i].name, data |-> B64Decode(items[i].payload)] : i \in 1..Len(items)}

ListFilesCall == [op |-> "list_embedded_files", arg |-> ""]

ReportCall == [op |-> "generate_report", arg |-> ""]

\* the positions of the elements that carry both attributes of an item
ItemElements(root) ==
    {i \in 1..Len(root) : HasAttr(root[i], AttrFilename) /\ HasAttr(root[i], AttrContent)}

\* the places the items of the extractor's document are to be written to
\* by the last extract_to_directory call
TargetPlaces ==
    LET dirs == Mkdir(dirCall.before, dirCall.output_dir).dirs IN
    {OutputFile(dirs, dirCall.output_dir, extractor.root[i].attrs[AttrFilename]).place :
        i \in {j \in ItemElements(extractor.root) :
                 OutputFile(dirs, dirCall.output_dir,
                            extractor.root[j].attrs[AttrFilename]).reachable}}

\* a place lies inside a directory
Inside(place, dir) == Len(place) > Len(dir) /\ SubSeq(place, 1, Len(dir)) = dir

\* the places whose file the last extract_to_directory call made, changed or removed
TouchedPlaces ==
    {p \in DOMAIN outDir.files \cup DOMAIN dirCall.before.files :
        \/ p \notin DOMAIN outDir.files
        \/ p \notin DOMAIN dirCall.before.files
        \/ outDir.files[p] # dirCall.before.files[p]}

\* an input document of a batch that is there and well-formed
GoodInput(path) ==
    path \in DOMAIN docs /\ docs[path].exists /\ XMLFromString(docs[path].text).status = "ok"

BatchOutputOf(path) == OutputPath(BatchOutputDir, EnsureSvgSuffix(Stem(path) \o ExportMark))

-----------------------------------------------------------------------------
(* The claims on parsing, listing, export, extraction and concurrency *)

\* C21: parsing a text that is not well-formed gives no tree: a FileExtractor,
\* SVGLister or SVGValidator made from it fails with SVGGError and has no root,
\* and load_svg of the file fails and returns no tree.
C21_IllFormedGivesNoTree ==
    IllFormed(DocIn)
    => /\ extractor.made => (extractor.status = "SVGGError" /\ extractor.root = <<>>)
       /\ lister.made => (lister.status = "SVGGError" /\ lister.root = <<>>)
       /\ validator.made => (validator.status = "SVGGError" /\ validator.root = <<>>)
       /\ (loadCall.called /\ loadCall.file_path = DocIn)
          => (loadCall.status = "XMLSyntaxError" /\ loadCall.root = <<>>)

\* C22: after export_svg of a well-formed document, pretty or compact, the
\* file written parses to the same elements, attributes, text and parents as
\* the source, and holds the same embedded items.
C22_ExportRoundTrip ==
    (exportCall.called /\ exportCall.status = "ok")
    => LET written == docs[exportCall.output_path].text
           before == XMLFromString(exportCall.source)
           after == XMLFromString(written)
       IN  /\ after.status = "ok"
           /\ SameTree(before.elems, after.elems)
           /\ ItemSetOf(written) = ItemSetOf(exportCall.source)

\* C23: list_embedded_files reports one item in attributes for each element
\* that carries both data-filename and data-content, the root included, and
\* none for an element that carries only one of the two.
C23_EveryItemElementListed ==
    listCall[ListFilesCall].runs > 0
    => LET listed == SelectSeq(listCall[ListFilesCall].result,
                               LAMBDA f : f.location = "metadata")
           items == ItemElements(lister.root)
       IN  /\ Len(listed) = Cardinality(items)
           /\ \A i \in items :
                 \E k \in 1..Len(listed) :
                    listed[k].filename = lister.root[i].attrs[AttrFilename]
           /\ \A k \in 1..Len(listed) :
                 \E i \in items : listed[k].filename = lister.root[i].attrs[AttrFilename]

\* C24: extract_to_directory with overwrite false, when a target file is
\* already there, raises FileExistsError and leaves every file that was there
\* with its content; a file that was there is replaced only with overwrite true.
C24_ConflictRaisesFileExistsError ==
    dirCall.called
    => /\ (~dirCall.overwrite /\ TargetPlaces \cap DOMAIN dirCall.before.files # {})
          => dirCall.status = "FileExistsError"
       /\ ~dirCall.overwrite
          => \A p \in DOMAIN dirCall.before.files :
                p \in DOMAIN outDir.files /\ outDir.files[p] = dirCall.before.files[p]

\* C25: after process_files, every input document that is there and
\* well-formed has its exported file, whatever other input failed.
C25_FailuresIsolated ==
    (batchCall.called /\ batchCall.output_format = "svg")
    => \A i \in 1..Len(batchCall.input_files) :
          GoodInput(batchCall.input_files[i])
          => /\ BatchOutputOf(batchCall.input_files[i]) \in DOMAIN docs
             /\ docs[BatchOutputOf(batchCall.input_files[i])].exists

\* C26: an embed invocation that ran next to another one, on its own
\* generator or on a shared one, ends with success, and every metadata block
\* of its output lists exactly its own files.
C26_EachOutputListsOwnFiles ==
    \A t \in Threads :
        tasks[t].pc = "done"
        => /\ tasks[t].success
           /\ WrittenMetadata(docs[tasks[t].output].text) # {}
           /\ \A text \in WrittenMetadata(docs[tasks[t].output].text) :
                 LET loaded == JsonLoads(text) IN
                 /\ loaded.status = "ok"
                 /\ HasKey(loaded.val, KeyEmbeddedFiles)
                 /\ DescribesFiles(DictGet(loaded.val, KeyEmbeddedFiles).v, tasks[t].files)

\* C27: the methods of a lister are read-only: its tree always equals the
\* parsed document it was made from, and a method called again returns what
\* it returned before.
C27_ListerReadOnly ==
    /\ []((lister.made /\ lister.status = "ok")
          => lister.root = XMLFromString(docs[DocIn].text).elems)
    /\ [][\A c \in ListerCalls :
             (listCall[c].runs > 0 /\ listCall'[c].runs = listCall[c].runs + 1)
             => listCall'[c].result = listCall[c].result]_vars

\* C27 witness: on a document with a text that reads as a comment naming a
\* file, list_embedded_files and generate_report were each called twice and
\* the list has the item of the comment.
C27_Witness ==
    /\ lister.made /\ lister.status = "ok"
    /\ \E i \in 1..Len(lister.root) : TextIsComment(lister.root[i].text)
    /\ listCall[ListFilesCall].runs = 2
    /\ listCall[ReportCall].runs = 2
    /\ \E k \in 1..Len(listCall[ListFilesCall].result) :
          listCall[ListFilesCall].result[k].element = "comment"

\* C28: after an extract_to_directory call that failed, the files are those
\* that were there before the call, each with the content it had.
C28_FailureLeavesFilesAsBefore ==
    (dirCall.called /\ dirCall.status # "ok") => outDir.files = dirCall.before.files

\* C29: every file an extract_to_directory call made, changed or removed
\* lies inside the output directory.
C29_WritesStayInside ==
    dirCall.called => \A p \in TouchedPlaces : Inside(p, DirPlace(dirCall.output_dir))

\* C30: a validate() call leaves the tree as it was, and from the second call
\* on returns the errors and warnings of the call before.
C30_ValidateRepeatable ==
    [][validateCall'.runs = validateCall.runs + 1
       => /\ validator'.root = validator.root
          /\ validateCall.runs > 0
             => /\ validateCall'.errors = validateCall.errors
                /\ validateCall'.warnings = validateCall.warnings]_vars

====
